---------------------------- MODULE Spec2Model ----------------------------
(***************************************************************************)
(* Priority Suggestion Engine (phase_2/backend/priority_engine.py),       *)
(* Natural-Language Task Parser (phase_3/backend/nlp_processor.py),        *)
(* in-memory Task Service (phase_1/src/services/task_service.py) and the   *)
(* complete_task chat tool (phase_3/backend/chat_tools/complete_task.py)   *)
(* over the tasks table of phase_2/backend/services/task_service.py.       *)
(*                                                                         *)
(* Texts are TLA+ strings; Len, SubSeq and \o act on them character by     *)
(* character, so substring search, case folding and the regular            *)
(* expressions of the source are computed on the characters themselves.    *)
(*                                                                         *)
(* Numbers: the source computes in binary floating point with the decimal  *)
(* constants 0.2 .. 1.0.  Factor scores and weights are kept here in       *)
(* hundredths (0.35 is 35), the weighted score in ten-thousandths (0.725   *)
(* is 7250) and the confidence in hundred-thousandths (0.87 is 87000).     *)
(* No reachable score lies on a threshold (0.4, 0.7), so the rounding of   *)
(* the floating-point sum never changes a comparison.                      *)
(*                                                                         *)
(* An absent value (Python None) is the empty tuple <<>>, a present value  *)
(* v is the one-element tuple <<v>>.                                       *)
(***************************************************************************)
EXTENDS Integers, Sequences, FiniteSets, TLC

VARIABLES
    now,        \* the wall clock read by datetime.now(): [ord, hour]
    engine,     \* the module-level PriorityEngine instance (its attributes)
    nlp,        \* the module-level NLPProcessor instance (its attributes)
    pc,         \* "idle" | "suggested" | "parsed": position of the sequential caller
    sArgs,      \* arguments of the suggest_smart_priority call that returned last
    sClock,     \* the clock value that call read
    sRes,       \* what that call returned (or that it raised)
    pinned,     \* an earlier suggest call kept for comparison: <<>> or
                \* <<[args, clock, res, between]>>
    pText,      \* argument of the parse_task_from_natural_language call that returned last
    pClock,     \* the clock value that call read
    pRes,       \* what that call returned (or that it raised)
    ticks,      \* number of clock advances so far
    th,         \* the concurrent callers: th[t] is thread t's frame
    api_client, \* the MockAPIClient of the in-memory TaskService: [tasks, next_id]
    svcCall,    \* the TaskService call that ended last: what it was given, the
                \* client before it, whether it raised, what it returned
    handed,     \* the ids returned by the successful create_task calls, in order
    db,         \* the tasks table of the web application: id -> row
    toolCall,   \* the complete_task_handler call that ended last
    tableCall,  \* the call on the tasks table that ended last
    touched     \* [owner, by]: a task of owner was returned, modified or
                \* deleted by a call carrying the user id by

serviceVars == <<api_client, svcCall, handed>>
toolVars == <<db, toolCall, tableCall, touched>>
vars ==
    <<now, engine, nlp, pc, sArgs, sClock, sRes, pinned, pText, pClock, pRes, ticks, th,
      serviceVars, toolVars>>

None == <<>>
Some(v) == <<v>>

-----------------------------------------------------------------------------
(* Characters and strings (Python str methods used by the source).         *)

Char(s, i) == SubSeq(s, i, i)

UpperLetters == "ABCDEFGHIJKLMNOPQRSTUVWXYZ"
LowerLetters == "abcdefghijklmnopqrstuvwxyz"
Digits == "0123456789"

IndexIn(alphabet, c) ==
    IF \E i \in 1..Len(alphabet) : Char(alphabet, i) = c
    THEN CHOOSE i \in 1..Len(alphabet) : Char(alphabet, i) = c
    ELSE 0

IsUpper(c) == IndexIn(UpperLetters, c) > 0
IsLowerLetter(c) == IndexIn(LowerLetters, c) > 0
IsDigit(c) == IndexIn(Digits, c) > 0
IsSpace(c) == c = " "
\* \w of the re module: letters, digits and the underscore
IsWordChar(c) == IsUpper(c) \/ IsLowerLetter(c) \/ IsDigit(c) \/ c = "_"

LowerChar(c) == IF IsUpper(c) THEN Char(LowerLetters, IndexIn(UpperLetters, c)) ELSE c
UpperChar(c) == IF IsLowerLetter(c) THEN Char(UpperLetters, IndexIn(LowerLetters, c)) ELSE c

\* s.lower() and s.upper(), character by character (by halves, to keep the
\* evaluation shallow on long texts)
RECURSIVE Lower(_)
Lower(s) ==
    IF Len(s) = 0 THEN ""
    ELSE IF Len(s) = 1 THEN LowerChar(s)
    ELSE Lower(SubSeq(s, 1, Len(s) \div 2)) \o Lower(SubSeq(s, Len(s) \div 2 + 1, Len(s)))

RECURSIVE UpperStr(_)
UpperStr(s) ==
    IF Len(s) = 0 THEN ""
    ELSE IF Len(s) = 1 THEN UpperChar(s)
    ELSE UpperStr(SubSeq(s, 1, Len(s) \div 2)) \o UpperStr(SubSeq(s, Len(s) \div 2 + 1, Len(s)))

\* s[i:] and s[:n] of Python, with 1-based first position i
From(s, i) == IF i > Len(s) THEN "" ELSE SubSeq(s, i, Len(s))
Prefix(s, n) == IF n >= Len(s) THEN s ELSE SubSeq(s, 1, n)

\* sub in s
Contains(s, sub) ==
    \E i \in 1..(Len(s) - Len(sub) + 1) : SubSeq(s, i, i + Len(sub) - 1) = sub

\* s.find(sub) as a 1-based position, 0 when absent (Python: -1)
Find(s, sub) ==
    IF Contains(s, sub)
    THEN CHOOSE i \in 1..(Len(s) - Len(sub) + 1) :
            /\ SubSeq(s, i, i + Len(sub) - 1) = sub
            /\ \A j \in 1..(i - 1) : SubSeq(s, j, j + Len(sub) - 1) # sub
    ELSE 0

StartsWithAt(s, i, w) == i + Len(w) - 1 <= Len(s) /\ SubSeq(s, i, i + Len(w) - 1) = w
StartsWith(s, w) == StartsWithAt(s, 1, w)

\* s.strip(): leading and trailing white space removed
RECURSIVE LStrip(_)
LStrip(s) == IF s # "" /\ IsSpace(Char(s, 1)) THEN LStrip(From(s, 2)) ELSE s
RECURSIVE RStrip(_)
RStrip(s) == IF s # "" /\ IsSpace(Char(s, Len(s))) THEN RStrip(Prefix(s, Len(s) - 1)) ELSE s
Strip(s) == RStrip(LStrip(s))

\* length of the run of characters satisfying the class, starting at position i
RECURSIVE SpaceRun(_, _)
SpaceRun(s, i) == IF i <= Len(s) /\ IsSpace(Char(s, i)) THEN 1 + SpaceRun(s, i + 1) ELSE 0
RECURSIVE DigitRun(_, _)
DigitRun(s, i) == IF i <= Len(s) /\ IsDigit(Char(s, i)) THEN 1 + DigitRun(s, i + 1) ELSE 0
RECURSIVE WordRun(_, _)
WordRun(s, i) == IF i <= Len(s) /\ IsWordChar(Char(s, i)) THEN 1 + WordRun(s, i + 1) ELSE 0
RECURSIVE LetterRun(_, _)
LetterRun(s, i) ==
    IF i <= Len(s) /\ (IsUpper(Char(s, i)) \/ IsLowerLetter(Char(s, i)))
    THEN 1 + LetterRun(s, i + 1) ELSE 0

AllDigits(s) == s # "" /\ DigitRun(s, 1) = Len(s)

\* int(s) for a string of digits short enough for the machine integers used here
RECURSIVE ParseInt(_)
ParseInt(s) ==
    IF s = "" THEN 0
    ELSE ParseInt(Prefix(s, Len(s) - 1)) * 10 + (IndexIn(Digits, Char(s, Len(s))) - 1)

Digit(n) == Char(Digits, n + 1)
\* '%02d' and '%04d'
Str2(n) == Digit((n \div 10) % 10) \o Digit(n % 10)
Str4(n) == Digit((n \div 1000) % 10) \o Digit((n \div 100) % 10) \o Str2(n % 100)


-----------------------------------------------------------------------------
(* The proleptic Gregorian calendar of Python's datetime: a date is a      *)
(* record [y, m, d], its ordinal the day count with 0001-01-01 = 1.        *)

MINYEAR == 1
MAXYEAR == 9999
\* timedelta accepts at most this many days
MaxDeltaDays == 999999999

IsLeap(y) == y % 4 = 0 /\ (y % 100 # 0 \/ y % 400 = 0)

DaysInMonth(y, m) ==
    IF m = 2 THEN (IF IsLeap(y) THEN 29 ELSE 28)
    ELSE IF m \in {4, 6, 9, 11} THEN 30 ELSE 31

RECURSIVE DaysBeforeMonth(_, _)
DaysBeforeMonth(y, m) == IF m <= 1 THEN 0 ELSE DaysBeforeMonth(y, m - 1) + DaysInMonth(y, m - 1)

DaysBeforeYear(y) ==
    LET p == y - 1 IN p * 365 + (p \div 4) - (p \div 100) + (p \div 400)

ValidDate(y, m, d) ==
    /\ y \in MINYEAR..MAXYEAR
    /\ m \in 1..12
    /\ d \in 1..DaysInMonth(y, m)

Ymd2Ord(y, m, d) == DaysBeforeYear(y) + DaysBeforeMonth(y, m) + d

MaxOrdinal == Ymd2Ord(MAXYEAR, 12, 31)

\* the month and day of the n-th day (n >= 0) of year y
RECURSIVE MonthDay(_, _, _)
MonthDay(y, m, n) ==
    IF n < DaysInMonth(y, m) THEN [y |-> y, m |-> m, d |-> n + 1]
    ELSE MonthDay(y, m + 1, n - DaysInMonth(y, m))

Ord2Ymd(ord) ==
    LET n0   == ord - 1
        n400 == n0 \div 146097
        r400 == n0 % 146097
        n100 == r400 \div 36524
        r100 == r400 % 36524
        n4   == r100 \div 1461
        r4   == r100 % 1461
        n1   == r4 \div 365
        r1   == r4 % 365
        year == n400 * 400 + 1 + n100 * 100 + n4 * 4 + n1
    IN  IF n1 = 4 \/ n100 = 4
        THEN [y |-> year - 1, m |-> 12, d |-> 31]
        ELSE MonthDay(year, 1, r1)

\* an instant of the naive local clock: day ordinal and hour of the day
Instant(y, m, d, h) == [ord |-> Ymd2Ord(y, m, d), hour |-> h]

\* datetime + timedelta(days, hours); raises OverflowError when the delta or
\* the resulting date cannot be represented
AddDelta(t, days, hours) ==
    LET total == t.hour + hours
        ord   == t.ord + days + (total \div 24)
    IN  IF days > MaxDeltaDays \/ ord < 1 \/ ord > MaxOrdinal
        THEN [exc |-> TRUE, ord |-> 0, hour |-> 0]
        ELSE [exc |-> FALSE, ord |-> ord, hour |-> total % 24]

\* strftime('%Y-%m-%d')
FormatDate(ord) ==
    LET c == Ord2Ymd(ord) IN Str4(c.y) \o "-" \o Str2(c.m) \o "-" \o Str2(c.d)

\* datetime.fromisoformat on the forms YYYY-MM-DD, YYYY-MM-DDTHH:MM[:SS] and the
\* latter with a UTC offset +HH:MM; anything else raises ValueError (ok = FALSE)
IsoTimeOk(s) ==
    /\ Len(s) \in {16, 19, 22, 25}
    /\ Char(s, 11) \in {"T", " "}
    /\ AllDigits(SubSeq(s, 12, 13)) /\ Char(s, 14) = ":" /\ AllDigits(SubSeq(s, 15, 16))
    /\ ParseInt(SubSeq(s, 12, 13)) < 24 /\ ParseInt(SubSeq(s, 15, 16)) < 60
    /\ Len(s) \in {19, 25} =>
          /\ Char(s, 17) = ":" /\ AllDigits(SubSeq(s, 18, 19))
          /\ ParseInt(SubSeq(s, 18, 19)) < 60
    /\ Len(s) \in {22, 25} =>
          LET z == From(s, Len(s) - 5) IN
          /\ Char(z, 1) \in {"+", "-"}
          /\ AllDigits(SubSeq(z, 2, 3)) /\ Char(z, 4) = ":" /\ AllDigits(SubSeq(z, 5, 6))

FromIsoFormat(s) ==
    LET bad == [ok |-> FALSE, ord |-> 0, hour |-> 0, aware |-> FALSE]
        dateOk ==
            /\ Len(s) >= 10
            /\ AllDigits(SubSeq(s, 1, 4)) /\ Char(s, 5) = "-"
            /\ AllDigits(SubSeq(s, 6, 7)) /\ Char(s, 8) = "-"
            /\ AllDigits(SubSeq(s, 9, 10))
            /\ ValidDate(ParseInt(SubSeq(s, 1, 4)), ParseInt(SubSeq(s, 6, 7)),
                         ParseInt(SubSeq(s, 9, 10)))
    IN  IF ~dateOk THEN bad
        ELSE IF Len(s) > 10 /\ ~IsoTimeOk(s) THEN bad
        ELSE [ok    |-> TRUE,
              ord   |-> Ymd2Ord(ParseInt(SubSeq(s, 1, 4)), ParseInt(SubSeq(s, 6, 7)),
                                ParseInt(SubSeq(s, 9, 10))),
              hour  |-> IF Len(s) > 10 THEN ParseInt(SubSeq(s, 12, 13)) ELSE 0,
              aware |-> Len(s) \in {22, 25}]

\* str.replace(old, new), every occurrence, left to right
RECURSIVE Replace(_, _, _)
Replace(s, old, new) ==
    IF s = "" THEN ""
    ELSE IF StartsWith(s, old) THEN new \o Replace(From(s, Len(old) + 1), old, new)
    ELSE Char(s, 1) \o Replace(From(s, 2), old, new)

-----------------------------------------------------------------------------
(* PriorityEngine (phase_2/backend/priority_engine.py).                    *)

Min(a, b) == IF a <= b THEN a ELSE b

\* self.priority_factors, set by __init__ (hundredths)
PriorityFactors ==
    [deadline_proximity |-> 35, keyword_importance |-> 30, task_duration |-> 10,
     user_history |-> 15, recurrence_pattern |-> 10]

EngineInit == [priority_factors |-> PriorityFactors]

\* the local weights of calculate_priority (hundredths)
deadline_weight == 35
keyword_weight == 30
duration_weight == 10
history_weight == 15
recurrence_weight == 10

\* the level thresholds (ten-thousandths)
HighThreshold == 7000
MediumThreshold == 4000

high_imp_words ==
    <<"urgent", "asap", "immediately", "important", "critical", "priority",
      "deadline", "emergency", "crucial", "essential", "vital", "pressing",
      "time-sensitive", "time sensitive", "cannot miss", "must do", "required">>

medium_imp_words ==
    <<"review", "follow up", "reply", "check", "confirm", "schedule",
      "prepare", "organize", "arrange", "coordinate", "plan">>

\* sum(1 for word in words if word in text)
CountMatches(words, text) == Cardinality({i \in DOMAIN words : Contains(text, words[i])})

\* Variant: a mapping counts as soon as it is not None
TruthyMapProvided(opt) == opt # None

\* Truth value of an optional string and of an optional mapping: None and the
\* empty value are false
TruthyStr(opt) == opt # None /\ opt[1] # ""

TruthyMap(opt) == opt # None /\ DOMAIN opt[1] # {}

\* time_diff.days of due - now: the whole days of the difference, rounded down
DiffDays(due, clock) == ((due.ord - clock.ord) * 24 + (due.hour - clock.hour)) \div 24

\* Variant: a deadline is urgent only once it lies in the past
DeadlineBandStrict(days) ==
    IF days < 0 THEN 90
    ELSE IF days <= 2 THEN 70
    ELSE IF days <= 7 THEN 50
    ELSE 20

\* The score for a parsed deadline, by the day thresholds
DeadlineBand(days) ==
    IF days <= 0 THEN 90
    ELSE IF days <= 2 THEN 70
    ELSE IF days <= 7 THEN 50
    ELSE 20

\* _calculate_deadline_proximity_score: its own try/except turns a string that
\* cannot be parsed, and the subtraction of the naive clock from a datetime with
\* a UTC offset (TypeError), into 0.3
DeadlineProximityScore(task_details, clock) ==
    IF ~TruthyStr(task_details.due_date) THEN 30
    ELSE LET due == FromIsoFormat(Replace(task_details.due_date[1], "Z", "+00:00"))
         IN  IF ~due.ok \/ due.aware THEN 30
             ELSE DeadlineBand(DiffDays(due, clock))

\* Variant: the first high-importance match is not counted
KeywordImportanceScoreFromZero(task_details) ==
    IF task_details.title = None \/ task_details.description = None
    THEN [exc |-> TRUE, v |-> 0]
    ELSE LET text == Lower(task_details.title[1] \o " " \o task_details.description[1])
             high_count == CountMatches(high_imp_words, text)
             medium_count == CountMatches(medium_imp_words, text)
         IN  [exc |-> FALSE,
              v   |-> IF high_count > 0 THEN Min(80 + (high_count - 1) * 10, 100)
                      ELSE IF medium_count > 0 THEN Min(50 + medium_count * 10, 80)
                      ELSE 30]

\* Variant: medium-importance matches are added to the high-importance count
KeywordImportanceScoreMixed(task_details) ==
    IF task_details.title = None \/ task_details.description = None
    THEN [exc |-> TRUE, v |-> 0]
    ELSE LET text == Lower(task_details.title[1] \o " " \o task_details.description[1])
             high_count == CountMatches(high_imp_words, text)
             medium_count == CountMatches(medium_imp_words, text)
         IN  [exc |-> FALSE,
              v   |-> IF high_count > 0
                      THEN Min(80 + (high_count + medium_count) * 10, 100)
                      ELSE IF medium_count > 0 THEN Min(50 + medium_count * 10, 80)
                      ELSE 30]

\* _calculate_keyword_importance_score: title + ' ' + description raises
\* TypeError when either is None
KeywordImportanceScore(task_details) ==
    IF task_details.title = None \/ task_details.description = None
    THEN [exc |-> TRUE, v |-> 0]
    ELSE LET text == Lower(task_details.title[1] \o " " \o task_details.description[1])
             high_count == CountMatches(high_imp_words, text)
             medium_count == CountMatches(medium_imp_words, text)
         IN  [exc |-> FALSE,
              v   |-> IF high_count > 0 THEN Min(80 + high_count * 10, 100)
                      ELSE IF medium_count > 0 THEN Min(50 + medium_count * 10, 80)
                      ELSE 30]

TaskDurationScore(task_details) == 40
UserHistoryScore(task_details, user_context) == 40
RecurrenceScore(task_details, user_context) == 40

\* "; ".join(parts)
RECURSIVE Join(_)
Join(parts) ==
    IF Len(parts) = 0 THEN ""
    ELSE IF Len(parts) = 1 THEN parts[1]
    ELSE parts[1] \o "; " \o Join(Tail(parts))

DeadlineClause == "High priority due to upcoming deadline on "
KeywordClause == "Contains high-importance keywords indicating urgency"
DurationClause == "Short-duration task that can be completed quickly"
StandardReasoning == "Priority determined based on standard factors"

\* Variant: the keyword clause is appended before the deadline clause
GenerateReasoningKeywordFirst(scores, task_details) ==
    LET p1 == IF scores.deadline_proximity >= 70 /\ TruthyStr(task_details.due_date)
              THEN <<DeadlineClause \o task_details.due_date[1]>> ELSE <<>>
        p2 == IF scores.keyword_importance >= 70 THEN <<KeywordClause>> ELSE <<>>
        parts == p2 \o p1
    IN  Join(IF parts = <<>> THEN <<StandardReasoning>> ELSE parts)

\* _generate_reasoning (the second definition in the class body, identical to the first)
GenerateReasoning(scores, task_details) ==
    LET p1 == IF scores.deadline_proximity >= 70 /\ TruthyStr(task_details.due_date)
              THEN <<DeadlineClause \o task_details.due_date[1]>> ELSE <<>>
        p2 == IF scores.keyword_importance >= 70 THEN <<KeywordClause>> ELSE <<>>
        p3 == IF scores.task_duration >= 70 THEN <<DurationClause>> ELSE <<>>
        parts == p1 \o p2 \o p3
    IN  Join(IF parts = <<>> THEN <<StandardReasoning>> ELSE parts)

\* the weighted sum of the factor scores (ten-thousandths)
WeightedScore(scores, w) ==
    scores.deadline_proximity * w.deadline_proximity
    + scores.keyword_importance * w.keyword_importance
    + scores.task_duration * w.task_duration
    + scores.user_history * w.user_history
    + scores.recurrence_pattern * w.recurrence_pattern

\* total_score: the sum under the local weights, not under self.priority_factors
TotalScore(scores) ==
    WeightedScore(scores,
        [deadline_proximity |-> deadline_weight, keyword_importance |-> keyword_weight,
         task_duration |-> duration_weight, user_history |-> history_weight,
         recurrence_pattern |-> recurrence_weight])

\* Variant: "medium" starts at 0.5
PriorityLevelOfHalf(total_score) ==
    IF total_score >= HighThreshold THEN "high"
    ELSE IF total_score >= 5000 THEN "medium"
    ELSE "low"

PriorityLevelOf(total_score) ==
    IF total_score >= HighThreshold THEN "high"
    ELSE IF total_score >= MediumThreshold THEN "medium"
    ELSE "low"

\* Variant: the confidence is scaled as a percentage
ConfidenceOfPercent(total_score) == Min(total_score * 12 * 100, 100000 * 100)

\* confidence = min(total_score * 1.2, 1.0) (hundred-thousandths)
ConfidenceOf(total_score) == Min(total_score * 12, 100000)

NoFactors == [f \in {} |-> 0]

Raised ==
    [exc |-> TRUE, priority |-> "", confidence |-> 0, score |-> 0,
     factors |-> NoFactors, reasoning |-> ""]

\* the dictionary returned by the except branch of calculate_priority
DefaultSuggestion ==
    [exc |-> FALSE, priority |-> "medium", confidence |-> 50000, score |-> 5000,
     factors |-> NoFactors,
     reasoning |-> "Default priority assigned due to processing error"]

\* the try block of calculate_priority
CalculateBody(task_details, user_context, clock) ==
    LET kw == KeywordImportanceScore(task_details)
    IN  IF kw.exc THEN Raised
        ELSE LET scores ==
                    [deadline_proximity |-> DeadlineProximityScore(task_details, clock),
                     keyword_importance |-> kw.v,
                     task_duration      |-> TaskDurationScore(task_details),
                     user_history       |-> IF TruthyMap(user_context)
                                            THEN UserHistoryScore(task_details, user_context)
                                            ELSE 0,
                     recurrence_pattern |-> IF TruthyMap(user_context)
                                            THEN RecurrenceScore(task_details, user_context)
                                            ELSE 0]
                 total_score == TotalScore(scores)
             IN  [exc        |-> FALSE,
                  priority   |-> PriorityLevelOf(total_score),
                  confidence |-> ConfidenceOf(total_score),
                  score      |-> total_score,
                  factors    |-> scores,
                  reasoning  |-> GenerateReasoning(scores, task_details)]

\* Variant: no except branch, the exception reaches the caller
HandleErrorReraise(r) == r

\* try: ... except Exception: return the default
HandleError(r) == IF r.exc THEN DefaultSuggestion ELSE r

calculate_priority(task_details, user_context, clock) ==
    HandleError(CalculateBody(task_details, user_context, clock))

\* the module-level suggest_smart_priority, through the instance method
suggest_smart_priority(args, clock) ==
    calculate_priority([title |-> args.title, description |-> args.description,
                        due_date |-> args.due_date],
                       args.user_context, clock)

-----------------------------------------------------------------------------
(* NLPProcessor (phase_3/backend/nlp_processor.py).                        *)
(*                                                                         *)
(* The regular expressions are matched as the re module matches them:      *)
(* leftmost position first, alternatives in order, greedy repetition with  *)
(* backtracking, lazy repetition shortest first.  The texts considered     *)
(* hold letters, digits, spaces and punctuation but no line break, so "."  *)
(* matches every character, "\s" is the space and "$" the end of text.     *)

\* Variant: the high list also holds "priority"
PriorityKeywordsWithPriority ==
    [high   |-> <<"urgent", "important", "asap", "critical", "immediately", "priority",
                  "now", "soon">>,
     medium |-> <<"normal", "standard", "regular">>,
     low    |-> <<"later", "when possible", "eventually", "whenever">>]

\* self.priority_keywords, set by __init__
PriorityKeywords ==
    [high   |-> <<"urgent", "important", "asap", "critical", "immediately", "now", "soon">>,
     medium |-> <<"normal", "standard", "regular">>,
     low    |-> <<"later", "when possible", "eventually", "whenever">>]

NlpInit ==
    [date_patterns |->
        <<"today", "tomorrow", "next week", "next month",
          "in (\\d+) (days?|hours?|weeks?|months?)",
          "on (\\d{1,2}[/-]\\d{1,2}(?:[/-]\\d{2,4})?)",
          "on ([A-Za-z]+ \\d{1,2}(?:st|nd|rd|th)?)">>,
     priority_keywords |-> PriorityKeywords,
     priority_factors |-> PriorityFactors,
     time_patterns |->
        <<"at (\\d{1,2}:\\d{2}\\s*(?:AM|PM|am|pm)?)", "at (\\d{1,2}:\\d{2})",
          "by (\\d{1,2}:\\d{2}\\s*(?:AM|PM|am|pm)?)", "by (\\d{1,2}:\\d{2})">>]

\* title length kept by the fallback paths
TitleLimit == 255

\* re.sub(r'^(please|can you|would you|help me to?)\s*', '', text, flags=re.IGNORECASE)
StripFiller(text) ==
    LET low == Lower(text)
        n == IF StartsWith(low, "please") THEN 6
             ELSE IF StartsWith(low, "can you") THEN 7
             ELSE IF StartsWith(low, "would you") THEN 9
             ELSE IF StartsWith(low, "help me to") THEN 10
             ELSE IF StartsWith(low, "help me t") THEN 9
             ELSE 0
    IN  IF n = 0 THEN text ELSE From(text, n + SpaceRun(text, n + 1) + 1)

\* \s+<word>\s+ at position e of t (low is t lower-cased), for one of the given
\* words; the position after it, or 0
AfterSpacedWord(t, low, e, words) ==
    LET r == SpaceRun(t, e)
        hit == {i \in DOMAIN words : StartsWithAt(low, e + r, words[i])}
    IN  IF r >= 1 /\ hit # {}
        THEN LET w  == words[CHOOSE i \in hit : TRUE]
                 r2 == SpaceRun(t, e + r + Len(w))
             IN  IF r2 >= 1 THEN e + r + Len(w) + r2 ELSE 0
        ELSE 0

\* (?:\s+on\s+\w+|\s+at\s+\d+|\s+by\s+\d+|$) at position e
TitleEnd1(t, low, e) ==
    \/ e = Len(t) + 1
    \/ LET a == AfterSpacedWord(t, low, e, <<"on">>)
       IN  a > 0 /\ a <= Len(t) /\ IsWordChar(Char(t, a))
    \/ LET a == AfterSpacedWord(t, low, e, <<"at", "by">>)
       IN  a > 0 /\ a <= Len(t) /\ IsDigit(Char(t, a))

\* (?:\s+on\s+|\s+at\s+|\s+by\s+|$) at position e
TitleEnd2(t, low, e) ==
    \/ e = Len(t) + 1
    \/ AfterSpacedWord(t, low, e, <<"on", "at", "by">>) > 0

Least(S) == CHOOSE x \in S : \A y \in S : x <= y

\* the lazy group (.+?) starting at g: the least end e > g at which the rest matches
LazyEnd1(t, low, g) == Least({e \in (g + 1)..(Len(t) + 1) : TitleEnd1(t, low, e)})
LazyEnd2(t, low, g) == Least({e \in (g + 1)..(Len(t) + 1) : TitleEnd2(t, low, e)})

\* Where the group starts after a lead-in of length w at position p followed by
\* \s+ : after the whole run of spaces, or, when nothing follows the run, on its
\* last space (the run gives one back); 0 when the lead-in cannot be used
GroupStartAfter(t, p, w) ==
    LET r == SpaceRun(t, p + w)
    IN  IF r >= 1 /\ p + w + r <= Len(t) THEN p + w + r
        ELSE IF r >= 2 THEN Len(t)
        ELSE 0

\* re.search(r'(?:to\s+|to\s+be\s+|for\s+|about\s+)?(.+?)(?:\s+on\s+\w+|\s+at\s+\d+|\s+by\s+\d+|$)')
\* group(1), or None.  The search succeeds at the first character of any
\* non-empty text; "to\s+be\s+" is tried only after "to\s+" failed, and then fails too.
TitleCandidate1(t) ==
    IF t = "" THEN None
    ELSE LET low == Lower(t)
             w == IF StartsWith(low, "to") THEN 2
                  ELSE IF StartsWith(low, "for") THEN 3
                  ELSE IF StartsWith(low, "about") THEN 5
                  ELSE 0
             gs == IF w > 0 THEN GroupStartAfter(t, 1, w) ELSE 0
             g == IF gs > 0 THEN gs ELSE 1
         IN  Some(SubSeq(t, g, LazyEnd1(t, low, g) - 1))

LeadIns == <<"remind me to", "tell me to", "help me to", "create", "add", "make", "do">>

\* the group start of the second pattern tried at position p, or 0
LeadInAt(t, low, p) ==
    LET hit == {i \in DOMAIN LeadIns : StartsWithAt(low, p, LeadIns[i])}
    IN  IF hit = {} THEN 0
        ELSE GroupStartAfter(t, p, Len(LeadIns[CHOOSE i \in hit : TRUE]))

\* re.search(r'(?:remind me to|tell me to|help me to|create|add|make|do)\s+(.+?)(?:\s+on\s+|\s+at\s+|\s+by\s+|$)')
TitleCandidate2(t) ==
    LET low == Lower(t)
        ps == {p \in 1..Len(t) : LeadInAt(t, low, p) > 0}
    IN  IF ps = {} THEN None
        ELSE LET g == LeadInAt(t, low, Least(ps))
             IN  Some(SubSeq(t, g, LazyEnd2(t, low, g) - 1))

\* extracted[0].upper() + extracted[1:] if len(extracted) > 1 else extracted.upper()
Capitalise(x) == IF Len(x) > 1 THEN UpperChar(Char(x, 1)) \o From(x, 2) ELSE UpperStr(x)

\* s.split(c)[0]
UpTo(s, c) == IF Find(s, c) = 0 THEN s ELSE Prefix(s, Find(s, c) - 1)

\* what the matched-pattern path returns for the stripped group
MatchedTitle(extracted) == Capitalise(extracted)

\* what the first-clause path returns
FirstSentenceTitle(t) == Prefix(Strip(UpTo(UpTo(t, "."), ",")), TitleLimit)

ExtractTitle(text) ==
    LET t  == StripFiller(text)
        c1 == TitleCandidate1(t)
        c2 == TitleCandidate2(t)
    IN  IF c1 # None /\ Strip(c1[1]) # "" THEN MatchedTitle(Strip(c1[1]))
        ELSE IF c2 # None /\ Strip(c2[1]) # "" THEN MatchedTitle(Strip(c2[1]))
        ELSE FirstSentenceTitle(t)

\* A value or an exception, for the steps that can raise
Ok(v) == [exc |-> FALSE, v |-> v]
Exc == [exc |-> TRUE, v |-> None]

\* (datetime.now() + timedelta(...)).strftime('%Y-%m-%d')
DateAfter(clock, days, hours) ==
    LET t == AddDelta(clock, days, hours)
    IN  IF t.exc THEN Exc ELSE Ok(Some(FormatDate(t.ord)))

\* the first position at which r'in (\d+) (day|hour|week|month)s?' matches the
\* lower-cased text, as [p, digits, unit], or None
InUnits == <<"day", "hour", "week", "month">>

InPatternAt(low, p) ==
    LET n == DigitRun(low, p + 3)
        hit == {i \in DOMAIN InUnits : StartsWithAt(low, p + 3 + n + 1, InUnits[i])}
    IN  IF StartsWithAt(low, p, "in ") /\ n >= 1 /\ Char(low, p + 3 + n) = " " /\ hit # {}
        THEN Some([digits |-> SubSeq(low, p + 3, p + 2 + n),
                   unit |-> InUnits[CHOOSE i \in hit : TRUE]])
        ELSE None

InPattern(low) ==
    LET ps == {p \in 1..Len(low) : InPatternAt(low, p) # None}
    IN  IF ps = {} THEN None
        ELSE InPatternAt(low, Least(ps))

\* the digits without leading zeros
RECURSIVE DropZeros(_)
DropZeros(d) == IF Len(d) > 1 /\ Char(d, 1) = "0" THEN DropZeros(From(d, 2)) ELSE d

\* now + timedelta(<unit>=int(digits)): a count of ten digits or more overflows
\* for every unit, as does a delta of more than MaxDeltaDays days
InDelta(clock, digits, unit) ==
    IF Len(DropZeros(digits)) > 9 THEN Exc
    ELSE LET num == ParseInt(DropZeros(digits))
         IN  IF unit = "day" THEN DateAfter(clock, num, 0)
             ELSE IF unit = "hour" THEN DateAfter(clock, 0, num)
             ELSE IF unit = "week"
                  THEN (IF num > MaxDeltaDays \div 7 THEN Exc ELSE DateAfter(clock, num * 7, 0))
             ELSE (IF num > MaxDeltaDays \div 30 THEN Exc ELSE DateAfter(clock, num * 30, 0))

IsSep(c) == c = "/" \/ c = "-"

\* r'on (\d{1,2}[/-]\d{1,2}(?:[/-]\d{2,4})?)' at position p of the text: group(1) or None
NumericDateAt(text, p) ==
    LET a  == p + 3
        n1 == DigitRun(text, a)
        b  == a + n1 + 1
        r2 == DigitRun(text, b)
        n2 == Min(r2, 2)
        c  == b + n2 + 1
        r3 == DigitRun(text, c)
        third == b + n2 <= Len(text) /\ IsSep(Char(text, b + n2)) /\ r3 >= 2
        stop == IF third THEN c + Min(r3, 4) - 1 ELSE b + n2 - 1
    IN  IF /\ StartsWithAt(text, p, "on ")
           /\ n1 \in {1, 2}
           /\ a + n1 <= Len(text) /\ IsSep(Char(text, a + n1))
           /\ r2 >= 1
        THEN Some(SubSeq(text, a, stop))
        ELSE None

NumericDate(text) ==
    LET ps == {p \in 1..Len(text) : NumericDateAt(text, p) # None}
    IN  IF ps = {} THEN None
        ELSE NumericDateAt(text, Least(ps))

\* s.split('/')
RECURSIVE SplitSlash(_)
SplitSlash(s) ==
    IF Find(s, "/") = 0 THEN <<s>>
    ELSE <<Prefix(s, Find(s, "/") - 1)>> \o SplitSlash(From(s, Find(s, "/") + 1))

\* s.zfill(2)
ZFill2(s) == IF Len(s) = 0 THEN "00" ELSE IF Len(s) = 1 THEN "0" \o s ELSE s

\* the string built from the numeric date, or None when the group holds no '/'
NumericDateString(date_str, clock) ==
    LET parts == SplitSlash(date_str)
    IN  IF ~Contains(date_str, "/") THEN None
        ELSE IF Len(parts) = 3
        THEN LET year == IF Len(parts[3]) = 2 THEN "20" \o parts[3] ELSE parts[3]
             IN  Some(year \o "-" \o ZFill2(parts[1]) \o "-" \o ZFill2(parts[2]))
        ELSE IF Len(parts) = 2
        THEN Some(Str4(Ord2Ymd(clock.ord).y) \o "-" \o ZFill2(parts[1]) \o "-" \o ZFill2(parts[2]))
        ELSE None

MonthNames ==
    <<"january", "february", "march", "april", "may", "june", "july", "august",
      "september", "october", "november", "december">>

\* r'on ([A-Za-z]+ \d{1,2}(?:st|nd|rd|th)?)' with re.IGNORECASE at position p: group(1) or None
MonthDayAt(text, low, p) ==
    LET a  == p + 3
        n1 == LetterRun(text, a)
        b  == a + n1 + 1
        n2 == Min(DigitRun(text, b), 2)
        c  == b + n2
        suffix == \E x \in {"st", "nd", "rd", "th"} : StartsWithAt(low, c, x)
    IN  IF /\ StartsWithAt(low, p, "on ")
           /\ n1 >= 1
           /\ a + n1 <= Len(text) /\ Char(text, a + n1) = " "
           /\ n2 >= 1
        THEN Some(SubSeq(text, a, IF suffix THEN c + 1 ELSE c - 1))
        ELSE None

MonthDayMatch(text) ==
    LET low == Lower(text)
        ps == {p \in 1..Len(text) : MonthDayAt(text, low, p) # None}
    IN  IF ps = {} THEN None
        ELSE MonthDayAt(text, low, Least(ps))

\* datetime.strptime(s, '%B %d'): a full month name, white space, a day of one or
\* two digits valid in that month of 1900; [ok, m, d]
StrpTime(s0) ==
    LET s   == Lower(s0)
        n   == LetterRun(s, 1)
        mi  == {i \in DOMAIN MonthNames : MonthNames[i] = Prefix(s, n)}
        r   == SpaceRun(s, n + 1)
        ds  == From(s, n + r + 1)
        bad == [ok |-> FALSE, m |-> 0, d |-> 0]
    IN  IF mi = {} \/ r < 1 \/ ~AllDigits(ds) \/ Len(ds) > 2 THEN bad
        ELSE LET m == CHOOSE i \in mi : TRUE
                 d == ParseInt(ds)
             IN  IF d \in 1..DaysInMonth(1900, m) THEN [ok |-> TRUE, m |-> m, d |-> d] ELSE bad

\* the Month Day branch with its try/except: the date string, or None
MonthDayString(date_str, clock) ==
    LET cleaned == Replace(Replace(Replace(Replace(date_str, "th", ""), "st", ""), "nd", ""), "rd", "")
        parsed  == StrpTime(cleaned)
        cur     == Ord2Ymd(clock.ord)
        passed  == parsed.m < cur.m \/ (parsed.m = cur.m /\ parsed.d < cur.d)
        year    == IF passed THEN cur.y + 1 ELSE cur.y
    IN  IF ~parsed.ok \/ ~ValidDate(year, parsed.m, parsed.d) THEN None
        ELSE Some(Str4(year) \o "-" \o Str2(parsed.m) \o "-" \o Str2(parsed.d))

\* the rules after the four literal keywords
ExtractLaterRules(text, clock) ==
    LET low == Lower(text)
        in_pattern == InPattern(low)
        date_match == NumericDate(text)
        numeric == IF date_match = None THEN None ELSE NumericDateString(date_match[1], clock)
        month_day_match == MonthDayMatch(text)
    IN  IF in_pattern # None THEN InDelta(clock, in_pattern[1].digits, in_pattern[1].unit)
        ELSE IF numeric # None THEN Ok(numeric)
        ELSE IF month_day_match # None THEN Ok(MonthDayString(month_day_match[1], clock))
        ELSE Ok(None)

\* Variant: "tomorrow" is looked up in the text as typed, not lower-cased
ExtractDueDateCaseSensitive(text, clock) ==
    LET low == Lower(text)
    IN  IF Contains(low, "today") THEN DateAfter(clock, 0, 0)
        ELSE IF Contains(text, "tomorrow") THEN DateAfter(clock, 1, 0)
        ELSE IF Contains(low, "next week") THEN DateAfter(clock, 7, 0)
        ELSE IF Contains(low, "next month") THEN DateAfter(clock, 30, 0)
        ELSE ExtractLaterRules(text, clock)

\* _extract_due_date
ExtractDueDate(text, clock) ==
    LET low == Lower(text)
    IN  IF Contains(low, "today") THEN DateAfter(clock, 0, 0)
        ELSE IF Contains(low, "tomorrow") THEN DateAfter(clock, 1, 0)
        ELSE IF Contains(low, "next week") THEN DateAfter(clock, 7, 0)
        ELSE IF Contains(low, "next month") THEN DateAfter(clock, 30, 0)
        ELSE ExtractLaterRules(text, clock)

\* any(keyword in text for keyword in keywords)
AnyKeyword(keywords, text) == \E i \in DOMAIN keywords : Contains(text, keywords[i])

\* _extract_priority, reading the instance's keyword table
ExtractPriority(inst, text) ==
    LET text_lower == Lower(text)
    IN  IF AnyKeyword(inst.priority_keywords.high, text_lower) THEN "high"
        ELSE IF AnyKeyword(inst.priority_keywords.low, text_lower) THEN "low"
        ELSE "medium"

\* desc_part[desc_part.find(' ') + 1:]
AfterFirstSpace(s) == From(s, Find(s, " ") + 1)

\* _extract_description
ExtractDescription(text, title) ==
    LET idx == Find(Lower(text), Lower(title))
        desc_part == Strip(From(text, idx + Len(title)))
    IN  IF idx > 0
        THEN IF \/ StartsWith(desc_part, "to")
                \/ StartsWith(desc_part, "for")
                \/ StartsWith(desc_part, "about")
             THEN Strip(AfterFirstSpace(desc_part))
             ELSE desc_part
        ELSE Strip(From(StripFiller(text), Len(title) + 1))

\* re.findall(mark + r'(\w+)', text), lower-cased, as a set
Marked(text, mark) ==
    {Lower(SubSeq(text, i + 1, i + WordRun(text, i + 1))) :
        i \in {j \in 1..Len(text) : Char(text, j) = mark /\ WordRun(text, j + 1) >= 1}}

\* _extract_tags; list(set(tags)) has no defined order, so the result is a set
ExtractTags(text) ==
    LET text_lower == Lower(text)
    IN  Marked(text, "#")
        \cup {"person:" \o m : m \in Marked(text, "@")}
        \cup (IF AnyKeyword(<<"work", "office", "meeting", "project">>, text_lower)
              THEN {"work"} ELSE {})
        \cup (IF AnyKeyword(<<"personal", "home", "family", "private">>, text_lower)
              THEN {"personal"} ELSE {})
        \cup (IF AnyKeyword(<<"shopping", "buy", "grocery", "purchase">>, text_lower)
              THEN {"shopping"} ELSE {})

ParseRaised ==
    [exc |-> TRUE, title |-> "", description |-> "", due_date |-> None,
     priority |-> "", tags |-> {}, confidence |-> 0]

\* the dictionary returned by the except branch (confidence in hundredths)
FallbackTask(input_text) ==
    [exc |-> FALSE, title |-> Prefix(input_text, TitleLimit), description |-> "",
     due_date |-> None, priority |-> "medium", tags |-> {}, confidence |-> 0]

\* the try block of parse_task_from_natural_language
ParseBody(inst, input_text, clock) ==
    LET title == ExtractTitle(input_text)
        due   == ExtractDueDate(input_text, clock)
    IN  IF due.exc THEN ParseRaised
        ELSE [exc         |-> FALSE,
              title       |-> title,
              description |-> ExtractDescription(input_text, title),
              due_date    |-> due.v,
              priority    |-> ExtractPriority(inst, input_text),
              tags        |-> ExtractTags(input_text),
              confidence  |-> 80]

\* Variant: no except branch, the exception reaches the caller
HandleParseErrorReraise(r, input_text) == r

\* Variant: a result with an empty title is treated as a failure
HandleParseErrorEmpty(r, input_text) ==
    IF r.exc \/ r.title = "" THEN FallbackTask(input_text) ELSE r

\* try: ... except Exception: return the fallback
HandleParseError(r, input_text) == IF r.exc THEN FallbackTask(input_text) ELSE r

parse_task_from_natural_language(inst, input_text, clock) ==
    HandleParseError(ParseBody(inst, input_text, clock), input_text)

-----------------------------------------------------------------------------
(* Inputs and bounds.                                                      *)

\* clock advances allowed in a run
MaxTicks == 2
\* words per generated text
MaxWords == 2
\* length of the long text
LongLen == 300

\* instants at which a run may start: an exact midnight before a leap day, and
\* late in the evening two days before the end of a year
StartInstants == {Instant(2024, 2, 28, 0), Instant(2024, 12, 30, 22)}
\* hours by which the clock advances in one step
TickHours == {2, 24}

RECURSIVE Repeat(_, _)
Repeat(c, n) ==
    IF n = 0 THEN ""
    ELSE IF n % 2 = 1 THEN c \o Repeat(c, n - 1)
    ELSE LET h == Repeat(c, n \div 2) IN h \o h

Titles == {None, Some("call mom"), Some("review plan"), Some("URGENT report")}
Descriptions == {None, Some(""), Some("check"), Some("asap")}
UserContexts == {None, Some(<<>>), Some([user_id |-> "u1"])}

\* due dates around the start instants, by their distance in days
DueOffsets == {-1, 0, 1, 2, 3, 4, 7, 8, 9}
DueDateStrings ==
    {FormatDate(t.ord + k) : t \in StartInstants, k \in DueOffsets}
DueDates ==
    {None, Some(""), Some("next friday"), Some("2024-02-30"),
     Some("2024-02-29T01:00:00"), Some("2024-03-01T00:00:00Z")}
    \cup {Some(d) : d \in DueDateStrings}

SuggestArgs ==
    [title : Titles, description : Descriptions, due_date : DueDates,
     user_context : UserContexts]

\* the calls followed across other calls
PinArgs ==
    [title : {Some("URGENT report")}, description : {Some("")},
     due_date : {None, Some("next friday"), Some("2024-02-29"), Some("2024-03-02"),
                 Some("2024-02-29T01:00:00")},
     user_context : {None, Some([user_id |-> "u1"])}]
\* the calls made in between
IdemArgs ==
    PinArgs \cup
    [title : {None, Some("call mom")}, description : {Some("check")},
     due_date : {Some("2024-02-28")}, user_context : {None}]

Words ==
    <<"call", "Tomorrow", "today", "urgent", "later", "know", "in 2 days",
      "on March 3rd", "#Home", "please">>

RECURSIVE TextsOf(_)
TextsOf(n) ==
    IF n = 1 THEN {Words[i] : i \in DOMAIN Words}
    ELSE {t \o " " \o Words[i] : t \in TextsOf(n - 1), i \in DOMAIN Words}

Keywords ==
    {"urgent", "asap", "immediately", "important", "critical", "priority", "now",
     "soon", "later", "when possible", "eventually", "whenever"}

Texts ==
    UNION {TextsOf(n) : n \in 1..MaxWords}
    \cup Keywords
    \cup {"", " ", "to  ", "  on add milk", "add priority call", "please add later",
          "Remind me to call the dentist tomorrow",
          "buy milk, then eggs. at 5 pm", "email @Bob about #Q3 by 5",
          "in 9999999 days", "pay rent in 99999999999 weeks", "in 3 hours",
          "submit on 12/25/24", "submit on 13/45", "meet on August 1st",
          "tomorrow in 9999999 days", "urgent in 9999999 days",
          Repeat("a", LongLen),
          "in 9999999 days " \o Repeat("b", LongLen)}

-----------------------------------------------------------------------------
(* The sequential caller.                                                  *)

Threads == {1, 2}
IdleFrame == [pc |-> "idle"]

\* MockAPIClient.__init__: no task, the first id is 1
MockInit == [tasks |-> <<>>, next_id |-> 1]
\* no TaskService call has been made yet
NoCall ==
    [op |-> "none", id |-> 0, before |-> MockInit, raised |-> FALSE, ret |-> None,
     prevToggle |-> None]
\* an empty tasks table, and no tool call yet
NoRows == <<>>
NoTableCall ==
    [op |-> "none", user_id |-> "", task_id |-> 0, before |-> NoRows, ret |-> None]
NoToolCall ==
    [op |-> "none", user_id |-> "", params |-> None, before |-> NoRows, success |-> FALSE]

Init ==
    /\ now \in StartInstants
    /\ engine = EngineInit
    /\ nlp = NlpInit
    /\ pc = "idle"
    /\ sArgs = None /\ sClock = None /\ sRes = None
    /\ pinned = None
    /\ pText = None /\ pClock = None /\ pRes = None
    /\ ticks = 0
    /\ th = [t \in Threads |-> IdleFrame]
    /\ api_client = MockInit
    /\ svcCall = NoCall
    /\ handed = <<>>
    /\ db = NoRows
    /\ toolCall = NoToolCall
    /\ tableCall = NoTableCall
    /\ touched = {}

\* the kept call, noting that a call with other arguments came after it
NoteCall(args) ==
    IF pinned # None /\ args # pinned[1].args
    THEN Some([pinned[1] EXCEPT !.between = TRUE])
    ELSE pinned

\* Variant: the weights are read from the instance, and each call rescales the
\* instance's table in place
SuggestAdaptive(A) ==
    /\ pc = "idle"
    /\ \E args \in A :
          LET r == suggest_smart_priority(args, now)
              score == IF r.factors = NoFactors THEN r.score
                       ELSE WeightedScore(r.factors, engine.priority_factors)
          IN  /\ sArgs' = Some(args)
              /\ sClock' = Some(now)
              /\ sRes' = Some([r EXCEPT !.score = score,
                                        !.confidence = ConfidenceOf(score)])
              /\ pinned' = NoteCall(args)
    /\ engine' = [engine EXCEPT !.priority_factors.task_duration = 0]
    /\ pc' = "suggested"
    /\ UNCHANGED <<now, nlp, pText, pClock, pRes, ticks, th,
                 serviceVars, toolVars>>

\* one call of the module-level suggest_smart_priority with arguments from A;
\* no attribute of the instance is assigned
Suggest(A) ==
    /\ pc = "idle"
    /\ \E args \in A :
          /\ sArgs' = Some(args)
          /\ sClock' = Some(now)
          /\ sRes' = Some(suggest_smart_priority(args, now))
          /\ pinned' = NoteCall(args)
    /\ pc' = "suggested"
    /\ UNCHANGED <<now, engine, nlp, pText, pClock, pRes, ticks, th,
                 serviceVars, toolVars>>

\* the caller drops the result
ReturnSuggest ==
    /\ pc = "suggested"
    /\ pc' = "idle"
    /\ sArgs' = None /\ sClock' = None /\ sRes' = None
    /\ UNCHANGED <<now, engine, nlp, pinned, pText, pClock, pRes, ticks, th,
                 serviceVars, toolVars>>

\* the caller keeps the call to compare a later one with it
Pin ==
    /\ pc = "suggested"
    /\ sArgs[1] \in PinArgs
    /\ pinned' = Some([args |-> sArgs[1], clock |-> sClock[1], res |-> sRes[1],
                       between |-> FALSE])
    /\ pc' = "idle"
    /\ sArgs' = None /\ sClock' = None /\ sRes' = None
    /\ UNCHANGED <<now, engine, nlp, pText, pClock, pRes, ticks, th,
                 serviceVars, toolVars>>

\* one call of the module-level parse_task_from_natural_language
Parse ==
    /\ pc = "idle"
    /\ \E text \in Texts :
          /\ pText' = Some(text)
          /\ pClock' = Some(now)
          /\ pRes' = Some(parse_task_from_natural_language(nlp, text, now))
    /\ pc' = "parsed"
    /\ UNCHANGED <<now, engine, nlp, pinned, sArgs, sClock, sRes, ticks, th,
                 serviceVars, toolVars>>

ReturnParse ==
    /\ pc = "parsed"
    /\ pc' = "idle"
    /\ pText' = None /\ pClock' = None /\ pRes' = None
    /\ UNCHANGED <<now, engine, nlp, pinned, sArgs, sClock, sRes, ticks, th,
                 serviceVars, toolVars>>

\* time passes between calls
Tick ==
    /\ pc = "idle"
    /\ ticks < MaxTicks
    /\ \E h \in TickHours :
          now' = [ord |-> AddDelta(now, 0, h).ord, hour |-> AddDelta(now, 0, h).hour]
    /\ ticks' = ticks + 1
    /\ UNCHANGED <<engine, nlp, pc, sArgs, sClock, sRes, pinned, pText, pClock, pRes, th,
                 serviceVars, toolVars>>

NextEngine == Suggest(SuggestArgs) \/ ReturnSuggest \/ Tick
NextIdem == Suggest(IdemArgs) \/ Pin \/ ReturnSuggest \/ Tick
NextParser == Parse \/ ReturnParse \/ Tick
Next == NextEngine \/ NextParser

SpecEngine == Init /\ [][NextEngine]_vars
SpecIdem == Init /\ [][NextIdem]_vars
SpecParser == Init /\ [][NextParser]_vars
Spec == Init /\ [][Next]_vars

-----------------------------------------------------------------------------
(* Concurrent callers.  Each thread runs one call at a time on the shared   *)
(* module-level instances; a call advances one sub-method at a time, and    *)
(* the other thread and the clock may move between any two steps.  The      *)
(* arguments and local variables of a call live in its own frame.           *)

ConcArgs ==
    {[title |-> Some("URGENT report"), description |-> Some(""),
      due_date |-> Some("2024-02-29"), user_context |-> Some([user_id |-> "u1"])],
     [title |-> None, description |-> None, due_date |-> None, user_context |-> None]}
ConcTexts == {"call Tomorrow", "urgent in 9999999 days"}

\* thread t moves to frame f; the other threads' frames stay as they are
Run(t, f) == th' = [th EXCEPT ![t] = f]

NewFrame(op, inp, first) ==
    [pc |-> first, op |-> op, inp |-> inp, clock |-> None, loc |-> <<>>, res |-> None]

ConcUnchanged == UNCHANGED <<now, engine, nlp, pc, sArgs, sClock, sRes, pinned, pText,
                             pClock, pRes, ticks, serviceVars, toolVars>>

TaskDetails(args) ==
    [title |-> args.title, description |-> args.description, due_date |-> args.due_date]

\* suggest_smart_priority is called; calculate_priority builds task_details
BeginSuggest(t) ==
    /\ th[t].pc = "idle"
    /\ \E args \in ConcArgs : Run(t, NewFrame("suggest", args, "deadline"))
    /\ ConcUnchanged

\* scores['deadline_proximity'] = ..., which reads the clock
SuggestDeadline(t) ==
    /\ th[t].pc = "deadline"
    /\ Run(t, [th[t] EXCEPT
                 !.pc = "keyword",
                 !.clock = Some(now),
                 !.loc = [deadline_proximity |->
                             DeadlineProximityScore(TaskDetails(th[t].inp), now)]])
    /\ ConcUnchanged

\* scores['keyword_importance'] = ...; an exception ends the call with the default
SuggestKeyword(t) ==
    /\ th[t].pc = "keyword"
    /\ LET kw == KeywordImportanceScore(TaskDetails(th[t].inp))
       IN  Run(t, IF kw.exc
                  THEN [th[t] EXCEPT !.pc = "done", !.res = Some(HandleError(Raised))]
                  ELSE [th[t] EXCEPT
                          !.pc = "score",
                          !.loc = [deadline_proximity |-> th[t].loc.deadline_proximity,
                                   keyword_importance |-> kw.v]])
    /\ ConcUnchanged

\* the remaining factors of the frame's scores
AllScores(f) ==
    [deadline_proximity |-> f.loc.deadline_proximity,
     keyword_importance |-> f.loc.keyword_importance,
     task_duration      |-> TaskDurationScore(TaskDetails(f.inp)),
     user_history       |-> IF TruthyMap(f.inp.user_context)
                            THEN UserHistoryScore(TaskDetails(f.inp), f.inp.user_context)
                            ELSE 0,
     recurrence_pattern |-> IF TruthyMap(f.inp.user_context)
                            THEN RecurrenceScore(TaskDetails(f.inp), f.inp.user_context)
                            ELSE 0]

Suggestion(scores, total_score, task_details) ==
    [exc        |-> FALSE,
     priority   |-> PriorityLevelOf(total_score),
     confidence |-> ConfidenceOf(total_score),
     score      |-> total_score,
     factors    |-> scores,
     reasoning  |-> GenerateReasoning(scores, task_details)]

\* Variant: the total is weighted by the instance's table, which the call then
\* rescales in place
SuggestFinishAdaptive(t) ==
    /\ th[t].pc = "score"
    /\ LET scores == AllScores(th[t])
       IN  Run(t, [th[t] EXCEPT
                     !.pc = "done",
                     !.res = Some(Suggestion(scores,
                                             WeightedScore(scores, engine.priority_factors),
                                             TaskDetails(th[t].inp)))])
    /\ engine' = [engine EXCEPT !.priority_factors.task_duration = 0]
    /\ UNCHANGED <<now, nlp, pc, sArgs, sClock, sRes, pinned, pText, pClock, pRes, ticks,
                   serviceVars, toolVars>>

\* the other factors, the weighted total with the local weights, the level, the
\* confidence and the reasoning
SuggestFinish(t) ==
    /\ th[t].pc = "score"
    /\ LET scores == AllScores(th[t])
       IN  Run(t, [th[t] EXCEPT
                     !.pc = "done",
                     !.res = Some(Suggestion(scores, TotalScore(scores),
                                             TaskDetails(th[t].inp)))])
    /\ ConcUnchanged

\* parse_task_from_natural_language is called
BeginParse(t) ==
    /\ th[t].pc = "idle"
    /\ \E text \in ConcTexts : Run(t, NewFrame("parse", text, "title"))
    /\ ConcUnchanged

\* title = self._extract_title(input_text)
ParseTitle(t) ==
    /\ th[t].pc = "title"
    /\ Run(t, [th[t] EXCEPT !.pc = "due_date",
                            !.loc = [title |-> ExtractTitle(th[t].inp)]])
    /\ ConcUnchanged

\* due_date = self._extract_due_date(input_text), which reads the clock; an
\* exception ends the call with the fallback
ParseDueDate(t) ==
    /\ th[t].pc = "due_date"
    /\ LET due == ExtractDueDate(th[t].inp, now)
       IN  Run(t, IF due.exc
                  THEN [th[t] EXCEPT !.pc = "done", !.clock = Some(now),
                                     !.res = Some(HandleParseError(ParseRaised, th[t].inp))]
                  ELSE [th[t] EXCEPT !.pc = "priority", !.clock = Some(now),
                                     !.loc = [title |-> th[t].loc.title,
                                              due_date |-> due.v]])
    /\ ConcUnchanged

\* priority = self._extract_priority(input_text), which reads the instance's lists
ParsePriority(t) ==
    /\ th[t].pc = "priority"
    /\ Run(t, [th[t] EXCEPT
                 !.pc = "description",
                 !.loc = [title |-> th[t].loc.title, due_date |-> th[t].loc.due_date,
                          priority |-> ExtractPriority(nlp, th[t].inp)]])
    /\ ConcUnchanged

\* description, tags and the result dictionary
ParseFinish(t) ==
    /\ th[t].pc = "description"
    /\ Run(t, [th[t] EXCEPT
                 !.pc = "done",
                 !.res = Some([exc         |-> FALSE,
                               title       |-> th[t].loc.title,
                               description |-> ExtractDescription(th[t].inp,
                                                                  th[t].loc.title),
                               due_date    |-> th[t].loc.due_date,
                               priority    |-> th[t].loc.priority,
                               tags        |-> ExtractTags(th[t].inp),
                               confidence  |-> 80])])
    /\ ConcUnchanged

\* the caller takes the result
Return(t) ==
    /\ th[t].pc = "done"
    /\ Run(t, IdleFrame)
    /\ ConcUnchanged

ThreadStep(t) ==
    \/ BeginSuggest(t) \/ SuggestDeadline(t) \/ SuggestKeyword(t) \/ SuggestFinish(t)
    \/ BeginParse(t) \/ ParseTitle(t) \/ ParseDueDate(t) \/ ParsePriority(t)
    \/ ParseFinish(t)
    \/ Return(t)

NextConc == (\E t \in Threads : ThreadStep(t)) \/ Tick
SpecConc == Init /\ [][NextConc]_vars

-----------------------------------------------------------------------------
(* The in-memory task service of the console application                    *)
(* (phase_1/src/services/task_service.py with skip_auth=True, and the Task  *)
(* model of phase_1/src/models/task.py).                                    *)

TitleMax == 1000
DescriptionMax == 5000
\* ids the client may hand out in a run
MaxTasks == 2

\* the dictionary d with d[key] = value
Put(d, key, value) == [k \in DOMAIN d \cup {key} |-> IF k = key THEN value ELSE d[k]]
\* the dictionary d after del d[key]
Del(d, key) == [k \in DOMAIN d \ {key} |-> d[k]]

\* "not title or not title.strip()"
BlankTitle(title) == title = "" \/ Strip(title) = ""

\* Task.__init__ with its three validations: a Task, or ValueError
NewTask(task_id, title, description, completed) ==
    IF task_id <= 0 THEN Exc
    ELSE IF BlankTitle(title) \/ Len(title) > TitleMax THEN Exc
    ELSE IF description # None /\ Len(description[1]) > DescriptionMax THEN Exc
    ELSE Ok([id |-> task_id, title |-> Strip(title),
             description |-> IF description = None THEN "" ELSE description[1],
             completed |-> completed])

\* Task(task_id=task_data.get("id"), title=..., description=..., completed=...)
TaskFromData(task_data) ==
    NewTask(task_data.id, task_data.title, Some(task_data.description),
            task_data.completed)

\* MockAPIClient.create_task: the task is stored under next_id
MockCreateTask(c, title, description) ==
    LET task_data == [id |-> c.next_id, title |-> title, description |-> description,
                      completed |-> FALSE]
    IN  [client |-> [tasks |-> Put(c.tasks, c.next_id, task_data),
                     next_id |-> c.next_id + 1],
         task |-> Some(task_data)]

\* MockAPIClient.get_task
MockGetTask(c, task_id) ==
    IF task_id \in DOMAIN c.tasks THEN Some(c.tasks[task_id]) ELSE None

\* MockAPIClient.update_task: the fields given are overwritten in place
MockUpdateTask(c, task_id, title, description) ==
    IF task_id \in DOMAIN c.tasks
    THEN LET old == c.tasks[task_id]
             task_data ==
                 [old EXCEPT
                     !.title = IF title # None THEN title[1] ELSE @,
                     !.description = IF description # None THEN description[1] ELSE @]
         IN  [client |-> [c EXCEPT !.tasks = Put(c.tasks, task_id, task_data)],
              task |-> Some(task_data)]
    ELSE [client |-> c, task |-> None]

\* Variant: the flag is set instead of flipped
MockSetTaskCompleted(c, task_id) ==
    IF task_id \in DOMAIN c.tasks
    THEN LET task_data == [c.tasks[task_id] EXCEPT !.completed = TRUE]
         IN  [client |-> [c EXCEPT !.tasks = Put(c.tasks, task_id, task_data)],
              task |-> Some(task_data)]
    ELSE [client |-> c, task |-> None]

\* MockAPIClient.toggle_task_completion
MockToggleTaskCompletion(c, task_id) ==
    IF task_id \in DOMAIN c.tasks
    THEN LET task_data == [c.tasks[task_id] EXCEPT !.completed = ~@]
         IN  [client |-> [c EXCEPT !.tasks = Put(c.tasks, task_id, task_data)],
              task |-> Some(task_data)]
    ELSE [client |-> c, task |-> None]

\* Variant: deleting an id that is not stored also reports success
MockDeleteTaskAlways(c, task_id) ==
    IF task_id \in DOMAIN c.tasks
    THEN [client |-> [c EXCEPT !.tasks = Del(c.tasks, task_id)], success |-> TRUE]
    ELSE [client |-> c, success |-> TRUE]

\* MockAPIClient.delete_task
MockDeleteTask(c, task_id) ==
    IF task_id \in DOMAIN c.tasks
    THEN [client |-> [c EXCEPT !.tasks = Del(c.tasks, task_id)], success |-> TRUE]
    ELSE [client |-> c, success |-> FALSE]

\* How a TaskService call ends: the client afterwards, whether ValueError was
\* raised, and the value returned otherwise
Returned(c, ret) == [client |-> c, raised |-> FALSE, ret |-> Some(ret)]
ReturnedNone(c) == [client |-> c, raised |-> FALSE, ret |-> None]
RaisedValueError(c) == [client |-> c, raised |-> TRUE, ret |-> None]

\* the Task built from the client's answer, or ValueError from its constructor
TaskOrError(c, task_data) ==
    LET t == TaskFromData(task_data)
    IN  IF t.exc THEN RaisedValueError(c) ELSE Returned(c, t.v)

\* TaskService.create_task: the blank-title test comes before the client is
\* called, the Task constructor after it
create_task(c, title, description) ==
    IF BlankTitle(title) THEN RaisedValueError(c)
    ELSE LET d == IF description = None THEN "" ELSE description[1]
             m == MockCreateTask(c, Strip(title), Strip(d))
         IN  TaskOrError(m.client, m.task[1])

\* TaskService.get_all_tasks: one Task per stored task
get_all_tasks(c) ==
    IF \E i \in DOMAIN c.tasks : TaskFromData(c.tasks[i]).exc
    THEN RaisedValueError(c)
    ELSE Returned(c, [i \in DOMAIN c.tasks |-> TaskFromData(c.tasks[i]).v])

\* TaskService.get_task_by_id
get_task_by_id(c, task_id) ==
    LET task_data == MockGetTask(c, task_id)
    IN  IF task_data = None THEN ReturnedNone(c) ELSE TaskOrError(c, task_data[1])

\* TaskService.update_task
update_task(c, task_id, title, description) ==
    IF title # None /\ BlankTitle(title[1]) THEN RaisedValueError(c)
    ELSE LET m == MockUpdateTask(c, task_id,
                                 IF title # None THEN Some(Strip(title[1])) ELSE None,
                                 description)
         IN  IF m.task = None THEN ReturnedNone(m.client)
             ELSE TaskOrError(m.client, m.task[1])

\* TaskService.delete_task
delete_task(c, task_id) ==
    LET m == MockDeleteTask(c, task_id) IN Returned(m.client, m.success)

\* TaskService.toggle_completion
toggle_completion(c, task_id) ==
    LET m == MockToggleTaskCompletion(c, task_id)
    IN  IF m.task = None THEN ReturnedNone(m.client)
        ELSE TaskOrError(m.client, m.task[1])

\* arguments of the calls
LongTitle == Repeat("t", TitleMax + 1)
LongDescription == Repeat("d", DescriptionMax + 1)
\* (title, description) of the create_task calls
CreateArgs ==
    {<<"  ", None>>, <<" milk ", None>>, <<LongTitle, None>>,
     <<" milk ", Some(LongDescription)>>}
\* (title, description) of the update_task calls
UpdateArgs == {<<None, Some("")>>, <<Some(""), None>>, <<Some(" milk "), None>>}
TaskIds == 0..MaxTasks

\* the call op on task_id has ended as r
EndCall(op, task_id, r) ==
    /\ api_client' = r.client
    /\ svcCall' =
          [op |-> op, id |-> task_id, before |-> api_client, raised |-> r.raised,
           ret |-> r.ret,
           prevToggle |->
               IF svcCall.op = "toggle_completion" /\ svcCall.id \in DOMAIN svcCall.before.tasks
               THEN Some([id |-> svcCall.id,
                          was |-> svcCall.before.tasks[svcCall.id].completed])
               ELSE None]
    /\ handed' = IF op = "create_task" /\ ~r.raised THEN Append(handed, r.ret[1].id)
                 ELSE handed

ServiceUnchanged ==
    UNCHANGED <<now, engine, nlp, pc, sArgs, sClock, sRes, pinned, pText, pClock, pRes,
                ticks, th, toolVars>>

CreateTask ==
    /\ api_client.next_id <= MaxTasks
    /\ \E a \in CreateArgs :
          EndCall("create_task", 0, create_task(api_client, a[1], a[2]))
    /\ ServiceUnchanged

GetAllTasks ==
    /\ EndCall("get_all_tasks", 0, get_all_tasks(api_client))
    /\ ServiceUnchanged

GetTaskById ==
    /\ \E task_id \in TaskIds :
          EndCall("get_task_by_id", task_id, get_task_by_id(api_client, task_id))
    /\ ServiceUnchanged

UpdateTask ==
    /\ \E task_id \in TaskIds, a \in UpdateArgs :
          EndCall("update_task", task_id, update_task(api_client, task_id, a[1], a[2]))
    /\ ServiceUnchanged

DeleteTask ==
    /\ \E task_id \in TaskIds :
          EndCall("delete_task", task_id, delete_task(api_client, task_id))
    /\ ServiceUnchanged

ToggleCompletion ==
    /\ \E task_id \in TaskIds :
          EndCall("toggle_completion", task_id, toggle_completion(api_client, task_id))
    /\ ServiceUnchanged

NextService ==
    \/ CreateTask \/ GetAllTasks \/ GetTaskById \/ UpdateTask \/ DeleteTask
    \/ ToggleCompletion
InitService == Init /\ now = Instant(2024, 2, 28, 0)
SpecService == InitService /\ [][NextService]_vars

-----------------------------------------------------------------------------
(* The complete_task chat tool and the tasks table it works on.            *)
(* A row of the table is kept as [user_id, completed]; the table is a      *)
(* function from the ids in use to their rows.                             *)

UserIdMax == 255
\* rows the table may have held in a run
MaxRows == 2

\* validate_user_id: 1 to 255 characters, all of them letters, digits, "_"
\* or "-" ("$" of the pattern also matches before one final newline)
validate_user_id(user_id) ==
    LET body == IF Len(user_id) > 1 /\ Char(user_id, Len(user_id)) = "\n"
                THEN Prefix(user_id, Len(user_id) - 1) ELSE user_id
    IN  /\ Len(user_id) >= 1 /\ Len(user_id) <= UserIdMax
        /\ \A i \in 1..Len(body) : IsWordChar(Char(body, i)) \/ Char(body, i) = "-"

\* CompleteTaskParams(**params): task_id is required and greater than 0
CompleteTaskParams(params) == params # None /\ params[1] > 0

\* validate_task_id
validate_task_id(task_id) == task_id > 0

\* Variant: the row is looked up by its id alone
TableGetTaskByIdAnyUser(rows, task_id, user_id) ==
    IF task_id \in DOMAIN rows THEN Some(rows[task_id]) ELSE None

\* get_task_by_id of the web application: the row with this id and this owner
TableGetTaskById(rows, task_id, user_id) ==
    IF task_id \in DOMAIN rows /\ rows[task_id].user_id = user_id
    THEN Some(rows[task_id]) ELSE None

\* create_task of the web application: the database gives the new row the id
\* after the largest one in use
TableCreateTask(rows, user_id, completed) ==
    LET task_id == IF DOMAIN rows = {} THEN 1
                   ELSE 1 + CHOOSE i \in DOMAIN rows : \A j \in DOMAIN rows : j <= i
    IN  Put(rows, task_id, [user_id |-> user_id, completed |-> completed])

\* delete_task of the web application
TableDeleteTask(rows, task_id, user_id) ==
    IF TableGetTaskById(rows, task_id, user_id) = None THEN rows ELSE Del(rows, task_id)

\* update_task of the web application: the fields set in task_data are
\* written to the row (of the row kept here, completed)
TableUpdateTask(rows, task_id, user_id, completed) ==
    IF TableGetTaskById(rows, task_id, user_id) = None
    THEN [rows |-> rows, task |-> None]
    ELSE LET db_task == [rows[task_id] EXCEPT
                           !.completed = IF completed # None THEN completed[1] ELSE @]
         IN  [rows |-> Put(rows, task_id, db_task), task |-> Some(db_task)]

\* toggle_task_completion of the web application
toggle_task_completion(rows, task_id, user_id) ==
    IF TableGetTaskById(rows, task_id, user_id) = None
    THEN [rows |-> rows, task |-> None]
    ELSE LET db_task == [rows[task_id] EXCEPT !.completed = ~@]
         IN  [rows |-> Put(rows, task_id, db_task), task |-> Some(db_task)]

\* complete_task_handler: the table afterwards and the "success" entry of the
\* dictionary returned
complete_task_handler(rows, user_id, params) ==
    IF ~validate_user_id(user_id) THEN [rows |-> rows, success |-> FALSE]
    ELSE IF ~CompleteTaskParams(params) THEN [rows |-> rows, success |-> FALSE]
    ELSE IF ~validate_task_id(params[1]) THEN [rows |-> rows, success |-> FALSE]
    ELSE LET updated == toggle_task_completion(rows, params[1], user_id)
         IN  [rows |-> updated.rows, success |-> updated.task # None]

\* arguments of the calls
Owners == {"u1", "u2"}
ToolUsers == Owners \cup {"", "u 1"}
RowIds == 0..MaxRows
ToolParams == {None} \cup {Some(i) : i \in RowIds}

ToolUnchanged ==
    UNCHANGED <<now, engine, nlp, pc, sArgs, sClock, sRes, pinned, pText, pClock, pRes,
                ticks, th, serviceVars>>

\* the call op by user_id on task_id has ended: the table afterwards and the
\* value returned; a task is touched when the call returned it or changed it
EndTableCall(op, user_id, task_id, rows, ret) ==
    /\ db' = rows
    /\ tableCall' = [op |-> op, user_id |-> user_id, task_id |-> task_id,
                     before |-> db, ret |-> ret]
    /\ touched' =
          IF /\ task_id \in DOMAIN db
             /\ \/ rows # db
                \/ IF op = "delete_task" THEN ret = Some(TRUE) ELSE ret # None
          THEN touched \cup {[owner |-> db[task_id].user_id, by |-> user_id]}
          ELSE touched

TableCreate ==
    /\ \A i \in DOMAIN db : i < MaxRows
    /\ \E user_id \in Owners, completed \in BOOLEAN :
          db' = TableCreateTask(db, user_id, completed)
    /\ toolCall' = NoToolCall
    /\ tableCall' = NoTableCall
    /\ UNCHANGED touched
    /\ ToolUnchanged

TableGet ==
    /\ \E task_id \in RowIds, user_id \in Owners :
          EndTableCall("get_task_by_id", user_id, task_id, db,
                       TableGetTaskById(db, task_id, user_id))
    /\ toolCall' = NoToolCall
    /\ ToolUnchanged

TableUpdate ==
    /\ \E task_id \in RowIds, user_id \in Owners, completed \in {None, Some(TRUE)} :
          LET r == TableUpdateTask(db, task_id, user_id, completed)
          IN  EndTableCall("update_task", user_id, task_id, r.rows, r.task)
    /\ toolCall' = NoToolCall
    /\ ToolUnchanged

TableToggle ==
    /\ \E task_id \in RowIds, user_id \in Owners :
          LET r == toggle_task_completion(db, task_id, user_id)
          IN  EndTableCall("toggle_task_completion", user_id, task_id, r.rows, r.task)
    /\ toolCall' = NoToolCall
    /\ ToolUnchanged

TableDelete ==
    /\ \E task_id \in RowIds, user_id \in Owners :
          LET rows == TableDeleteTask(db, task_id, user_id)
          IN  EndTableCall("delete_task", user_id, task_id, rows,
                           Some(TableGetTaskById(db, task_id, user_id) # None))
    /\ toolCall' = NoToolCall
    /\ ToolUnchanged

CompleteTask ==
    /\ \E user_id \in ToolUsers, params \in ToolParams :
          LET r == complete_task_handler(db, user_id, params)
          IN  /\ db' = r.rows
              /\ toolCall' = [op |-> "complete_task", user_id |-> user_id,
                              params |-> params, before |-> db, success |-> r.success]
              /\ touched' =
                    IF r.success
                    THEN touched \cup {[owner |-> db[params[1]].user_id, by |-> user_id]}
                    ELSE touched
    /\ tableCall' = NoTableCall
    /\ ToolUnchanged

NextTool ==
    \/ TableCreate \/ TableGet \/ TableUpdate \/ TableToggle \/ TableDelete
    \/ CompleteTask
SpecTool == InitService /\ [][NextTool]_vars

-----------------------------------------------------------------------------
(* Properties of the Priority Suggestion Engine.                           *)

Suggested == pc = "suggested"
Computed(r) == ~r.exc /\ r.factors # NoFactors

\* the due date is the calendar date of the clock the call read
DueToday == Suggested /\ sArgs[1].due_date = Some(FormatDate(sClock[1].ord))

\* C1 as stated: whenever the due date is the current calendar date and the
\* keyword_importance factor is at least 0.7, the priority is "high", with or
\* without a user context.
C1_DueTodayKeywordHigh ==
    (DueToday /\ Computed(sRes[1]) /\ sRes[1].factors.keyword_importance >= 70)
        => sRes[1].priority = "high"

\* C1 amended: whenever the due date is the current calendar date, the
\* keyword_importance factor is at least 0.9 (a high-importance keyword is
\* present) and a non-empty user context is supplied, the priority is "high".
C1_DueTodayKeywordContextHigh ==
    (/\ DueToday /\ Computed(sRes[1])
     /\ sRes[1].factors.keyword_importance >= 90
     /\ TruthyMap(sArgs[1].user_context))
        => sRes[1].priority = "high"

C1_Witness ==
    /\ DueToday /\ Computed(sRes[1])
    /\ sRes[1].factors.keyword_importance >= 90
    /\ TruthyMap(sArgs[1].user_context)
    /\ sClock[1].hour = 0
    /\ sRes[1].priority = "high"

\* C2: in every returned result, computed or default, the level agrees with the
\* score: "high" exactly when score >= 0.7, "medium" exactly when
\* 0.4 <= score < 0.7, "low" exactly when score < 0.4.
C2_LevelMatchesScore ==
    Suggested =>
        LET r == sRes[1]
        IN  /\ r.priority \in {"high", "medium", "low"}
            /\ (r.priority = "high") <=> (r.score >= 7000)
            /\ (r.priority = "medium") <=> (r.score >= 4000 /\ r.score < 7000)
            /\ (r.priority = "low") <=> (r.score < 4000)

C2_Witness ==
    /\ Suggested /\ Computed(sRes[1])
    /\ sRes[1].priority = "medium" /\ sRes[1].score < 5000

FactorNames ==
    {"deadline_proximity", "keyword_importance", "task_duration", "user_history",
     "recurrence_pattern"}

\* C5: suggest_smart_priority never raises; it returns either the computed
\* suggestion with all five factors or exactly the default suggestion (medium,
\* confidence 0.5, score 0.5, no factors, the fixed reasoning).
C5_NeverRaises ==
    Suggested =>
        LET r == sRes[1]
        IN  /\ ~r.exc
            /\ \/ DOMAIN r.factors = FactorNames
               \/ /\ r.priority = "medium" /\ r.confidence = 50000 /\ r.score = 5000
                  /\ DOMAIN r.factors = {}
                  /\ r.reasoning = "Default priority assigned due to processing error"

C5_Witness ==
    /\ Suggested
    /\ sArgs[1].title = None
    /\ sArgs[1].due_date = Some("next friday")
    /\ ~sRes[1].exc /\ DOMAIN sRes[1].factors = {} /\ sRes[1].score = 5000

SameArgsAsPinned == Suggested /\ pinned # None /\ sArgs[1] = pinned[1].args

\* C3 as stated: two calls with identical arguments return identical results,
\* whatever happens in between.
C3_SameArgsSameResult == SameArgsAsPinned => sRes[1] = pinned[1].res

\* C3 amended: two calls with identical arguments return identical results,
\* whatever other calls are made in between, when they read the same clock value
\* or no due_date is given: the engine keeps no hidden state, but the deadline
\* factor is computed from the current time.
C3_SameArgsSameClockSameResult ==
    (SameArgsAsPinned /\ (sClock[1] = pinned[1].clock \/ sArgs[1].due_date = None))
        => sRes[1] = pinned[1].res

C3_Witness ==
    /\ SameArgsAsPinned /\ pinned[1].between
    /\ sArgs[1].due_date = None /\ sClock[1] # pinned[1].clock
    /\ Computed(sRes[1]) /\ sRes[1] = pinned[1].res

\* what the call of frame f returns when run alone at the clock value it read
Alone(f) ==
    IF f.op = "parse" THEN parse_task_from_natural_language(NlpInit, f.inp, f.clock[1])
    ELSE suggest_smart_priority(f.inp, f.clock[1])

\* C4: concurrent calls of parse_task_from_natural_language and
\* suggest_smart_priority on the shared instances never interfere: under every
\* interleaving each call returns what it returns when run alone at the same
\* clock time, and the instances' weight table, keyword lists and pattern lists
\* never change.
C4_NoInterference ==
    /\ engine = EngineInit
    /\ nlp = NlpInit
    /\ \A t \in Threads : th[t].pc = "done" => th[t].res = Some(Alone(th[t]))

\* clock value a was read before clock value b
Earlier(a, b) == a.ord < b.ord \/ (a.ord = b.ord /\ a.hour < b.hour)

\* a suggest call has run from its clock read to its result while a parse call,
\* which read the clock before it, is still between two of its steps
C4_Witness ==
    /\ th[1].pc = "done" /\ th[1].op = "suggest"
    /\ th[1].res[1].priority = "high"
    /\ th[2].pc = "priority" /\ th[2].op = "parse"
    /\ th[2].loc.due_date # None
    /\ Earlier(th[2].clock[1], th[1].clock[1])

\* the lower-cased "title description" text of the call
KeywordText == Lower(sArgs[1].title[1] \o " " \o sArgs[1].description[1])
HasTexts == Suggested /\ sArgs[1].title # None /\ sArgs[1].description # None

HighEntries ==
    {"urgent", "asap", "immediately", "important", "critical", "priority", "deadline",
     "emergency", "crucial", "essential", "vital", "pressing", "time-sensitive",
     "time sensitive", "cannot miss", "must do", "required"}
MediumEntries ==
    {"review", "follow up", "reply", "check", "confirm", "schedule", "prepare",
     "organize", "arrange", "coordinate", "plan"}
\* the number of entries of a list found in the text
Found(entries) == Cardinality({w \in entries : Contains(KeywordText, w)})

\* C11: with no due date, no user context and exactly one high-importance
\* keyword in the title and description, the factors are keyword_importance 0.9,
\* deadline_proximity 0.3, task_duration 0.4, user_history 0.0 and
\* recurrence_pattern 0.0, the score is 0.415 and the priority is "medium".
C11_OneKeywordNoDeadline ==
    (/\ HasTexts /\ sArgs[1].due_date = None /\ sArgs[1].user_context = None
     /\ Found(HighEntries) = 1)
        => /\ sRes[1].factors =
                [deadline_proximity |-> 30, keyword_importance |-> 90,
                 task_duration |-> 40, user_history |-> 0, recurrence_pattern |-> 0]
           /\ sRes[1].score = 4150
           /\ sRes[1].priority = "medium"

C11_Witness ==
    /\ HasTexts /\ sArgs[1].due_date = None /\ sArgs[1].user_context = None
    /\ Found(HighEntries) = 1
    /\ sRes[1].score = 4150 /\ sRes[1].priority = "medium"

\* C12: the confidence is in [0.0, 1.0] for every input, absent and malformed
\* due dates included, and equals min(score * 1.2, 1.0) on the computed path.
C12_ConfidenceRange ==
    Suggested =>
        /\ sRes[1].confidence >= 0 /\ sRes[1].confidence <= 100000
        /\ Computed(sRes[1]) =>
              sRes[1].confidence =
                  (IF sRes[1].score * 12 <= 100000 THEN sRes[1].score * 12 ELSE 100000)

C12_Witness ==
    /\ Suggested /\ Computed(sRes[1])
    /\ sArgs[1].due_date = Some("2024-02-30")
    /\ sRes[1].score = 5150 /\ sRes[1].confidence = 61800

\* the due date is a calendar date YYYY-MM-DD, and how many days after the
\* clock's date it lies
DueIsDate ==
    /\ Suggested /\ sArgs[1].due_date # None
    /\ Len(sArgs[1].due_date[1]) = 10
    /\ FromIsoFormat(sArgs[1].due_date[1]).ok
DaysAfterToday == FromIsoFormat(sArgs[1].due_date[1]).ord - sClock[1].ord
DueUnusable ==
    /\ Suggested
    /\ \/ sArgs[1].due_date = None
       \/ ~FromIsoFormat(Replace(sArgs[1].due_date[1], "Z", "+00:00")).ok

\* C18: for a due date D given as a calendar date and the current date T, at any
\* time of day, deadline_proximity is 0.9 exactly when D is T or earlier, 0.7
\* when D is 1 or 2 days after T, 0.5 when 3 to 7 days after T, 0.2 when more
\* than 7 days after T; it is 0.3 when the due date is absent or cannot be parsed.
C18_DeadlineBandsByDate ==
    /\ (DueIsDate /\ Computed(sRes[1])) =>
          sRes[1].factors.deadline_proximity =
              (IF DaysAfterToday <= 0 THEN 90
               ELSE IF DaysAfterToday <= 2 THEN 70
               ELSE IF DaysAfterToday <= 7 THEN 50
               ELSE 20)
    /\ (DueUnusable /\ Computed(sRes[1])) => sRes[1].factors.deadline_proximity = 30

\* C19: keyword_importance is min(0.8 + 0.1*h, 1.0) with h >= 1 high-importance
\* entries found in the lower-cased "title description" text, whatever the
\* medium matches; min(0.5 + 0.1*m, 0.8) with h = 0 and m >= 1 medium-importance
\* entries; 0.3 with no match; so it is one of 0.3, 0.6, 0.7, 0.8, 0.9, 1.0.
C19_KeywordScoreByCounts ==
    (HasTexts /\ Computed(sRes[1])) =>
        LET h == Found(HighEntries)
            m == Found(MediumEntries)
            k == sRes[1].factors.keyword_importance
        IN  /\ h >= 1 => k = (IF 80 + 10 * h <= 100 THEN 80 + 10 * h ELSE 100)
            /\ (h = 0 /\ m >= 1) => k = (IF 50 + 10 * m <= 80 THEN 50 + 10 * m ELSE 80)
            /\ (h = 0 /\ m = 0) => k = 30
            /\ k \in {30, 60, 70, 80, 90, 100}

C19_Witness ==
    /\ HasTexts /\ Computed(sRes[1])
    /\ Found(HighEntries) = 1 /\ Found(MediumEntries) = 1
    /\ sRes[1].factors.keyword_importance = 90

\* C20 as stated: user_history and recurrence_pattern are 0.4 whenever a
\* user_context mapping is supplied, an empty one included, and 0.0 when it is
\* absent; task_duration is 0.4 in every call.
C20_ContextFactorsAnyMapping ==
    (Suggested /\ Computed(sRes[1])) =>
        LET f == sRes[1].factors
            v == IF sArgs[1].user_context # None THEN 40 ELSE 0
        IN  f.user_history = v /\ f.recurrence_pattern = v /\ f.task_duration = 40

\* C20 amended: user_history and recurrence_pattern are 0.4 whenever a non-empty
\* user_context mapping is supplied, and 0.0 when it is absent or empty;
\* task_duration is 0.4 in every call.
C20_ContextFactorsNonEmpty ==
    (Suggested /\ Computed(sRes[1])) =>
        LET f == sRes[1].factors
            c == sArgs[1].user_context
            v == IF c # None /\ c[1] # <<>> THEN 40 ELSE 0
        IN  f.user_history = v /\ f.recurrence_pattern = v /\ f.task_duration = 40

C20_Witness ==
    /\ Suggested /\ Computed(sRes[1])
    /\ sArgs[1].user_context = Some(<<>>)
    /\ sRes[1].factors.user_history = 0 /\ sRes[1].factors.recurrence_pattern = 0
    /\ sRes[1].factors.task_duration = 40

\* the clauses a computed result should carry, by its factors
DeadlineClauseDue ==
    sRes[1].factors.deadline_proximity >= 70
        /\ sArgs[1].due_date # None /\ sArgs[1].due_date[1] # ""
KeywordClauseDue == sRes[1].factors.keyword_importance >= 70
DeadlineText == "High priority due to upcoming deadline on " \o sArgs[1].due_date[1]
KeywordText70 == "Contains high-importance keywords indicating urgency"

\* C21: the reasoning of a computed result is the "; "-joined list of the
\* deadline clause (exactly when deadline_proximity >= 0.7 and a due date is
\* present) followed by the keyword clause (exactly when keyword_importance >=
\* 0.7); it is "Priority determined based on standard factors" exactly when
\* neither applies; the short-duration clause never appears.
C21_ReasoningClauses ==
    (Suggested /\ Computed(sRes[1])) =>
        LET r == sRes[1].reasoning
        IN  /\ r = (IF DeadlineClauseDue /\ KeywordClauseDue
                    THEN DeadlineText \o "; " \o KeywordText70
                    ELSE IF DeadlineClauseDue THEN DeadlineText
                    ELSE IF KeywordClauseDue THEN KeywordText70
                    ELSE "Priority determined based on standard factors")
            /\ (r = "Priority determined based on standard factors")
                  <=> (~DeadlineClauseDue /\ ~KeywordClauseDue)
            /\ ~Contains(r, "Short-duration task")

C21_Witness ==
    /\ Suggested /\ Computed(sRes[1])
    /\ DeadlineClauseDue /\ KeywordClauseDue
    /\ sRes[1].factors.deadline_proximity = 70
    /\ sRes[1].reasoning = DeadlineText \o "; " \o KeywordText70

\* C28: with user_context absent or empty the priority is never "high": the
\* computed score is at most 0.9*0.35 + 1.0*0.30 + 0.4*0.10 = 0.655.
C28_NoContextNeverHigh ==
    (Suggested /\ (sArgs[1].user_context = None \/ sArgs[1].user_context = Some(<<>>)))
        => /\ sRes[1].priority # "high"
           /\ Computed(sRes[1]) => sRes[1].score <= 6550

C28_Witness ==
    /\ Suggested /\ Computed(sRes[1])
    /\ sArgs[1].user_context = Some(<<>>)
    /\ sRes[1].score = 6550 /\ sRes[1].priority = "medium"

\* C29: whenever the reasoning contains "High priority due to upcoming
\* deadline", the priority is not "low".
C29_DeadlineClauseNotLow ==
    (Suggested /\ Contains(sRes[1].reasoning, "High priority due to upcoming deadline"))
        => sRes[1].priority # "low"

\* C30: the reasoning contains "Contains high-importance keywords indicating
\* urgency" only if the title or description contains a keyword of the
\* high-importance list; medium-importance keywords alone never produce it.
C30_KeywordClauseNeedsHighWord ==
    (Suggested /\ Contains(sRes[1].reasoning, KeywordText70))
        => (HasTexts /\ Found(HighEntries) >= 1)

-----------------------------------------------------------------------------
(* Properties of the Natural-Language Task Parser.                         *)

Parsed == pc = "parsed"
\* an extraction step of the call failed
StepFailed == Parsed /\ ExtractDueDate(pText[1], pClock[1]).exc

\* C6: parse_task_from_natural_language never raises on a text; when a step
\* fails it returns the fallback (title = the input cut to 255 characters, empty
\* description, no due date, "medium", no tags, confidence 0.0), and the
\* confidence is 0.8 on every other result.
C6_FallbackOnFailure ==
    Parsed =>
        LET r == pRes[1]
            t == pText[1]
        IN  /\ ~r.exc
            /\ StepFailed =>
                  /\ r.title = (IF Len(t) > 255 THEN SubSeq(t, 1, 255) ELSE t)
                  /\ r.description = "" /\ r.due_date = None
                  /\ r.priority = "medium" /\ r.tags = {} /\ r.confidence = 0
            /\ ~StepFailed => r.confidence = 80

C6_Witness ==
    /\ Parsed /\ StepFailed
    /\ Len(pText[1]) > 255 /\ Len(pRes[1].title) = 255
    /\ pRes[1].confidence = 0

IsEmptyResult(r, conf) ==
    /\ ~r.exc /\ r.title = "" /\ r.description = "" /\ r.due_date = None
    /\ r.priority = "medium" /\ r.tags = {} /\ r.confidence = conf

\* C7 as stated: parsing the empty text returns the fallback, with confidence 0.0.
C7_EmptyTextFallback == (Parsed /\ pText[1] = "") => IsEmptyResult(pRes[1], 0)

\* C7 amended: parsing the empty text returns title "", description "", no due
\* date, "medium" and no tags with confidence 0.8: no step fails, so it is the
\* regular result and not the fallback.
C7_EmptyTextRegular == (Parsed /\ pText[1] = "") => IsEmptyResult(pRes[1], 80)

C7_Witness == Parsed /\ pText[1] = "" /\ pRes[1].confidence = 80

\* the due date is the ISO date of the day k days after the clock's
DueInDays(k) ==
    /\ pRes[1].due_date # None
    /\ FromIsoFormat(pRes[1].due_date[1]).ok
    /\ Len(pRes[1].due_date[1]) = 10
    /\ FromIsoFormat(pRes[1].due_date[1]).ord = pClock[1].ord + k

HasWord(w) == Parsed /\ Contains(Lower(pText[1]), w)

\* C8 as stated: every text containing "tomorrow" gets the next calendar day.
C8_TomorrowAlways == HasWord("tomorrow") => DueInDays(1)

\* C8 amended: every text containing "tomorrow" and not "today" (both
\* case-insensitive) gets the next calendar day.
C8_TomorrowWithoutToday == (HasWord("tomorrow") /\ ~HasWord("today")) => DueInDays(1)

C8_Witness ==
    /\ HasWord("tomorrow") /\ ~HasWord("today")
    /\ pText[1] # Lower(pText[1])
    /\ DueInDays(1)
    /\ Ord2Ymd(pClock[1].ord + 1).d = 1

\* C9: the returned title has at most 255 characters, on every path.
C9_TitleAtMost255 == Parsed => Len(pRes[1].title) <= 255

HasAny(ws) == \E w \in ws : Contains(Lower(pText[1]), w)
LowWords == {"later", "when possible", "eventually", "whenever"}
HintFor(highWords) ==
    IF HasAny(highWords) THEN "high" ELSE IF HasAny(LowWords) THEN "low" ELSE "medium"

\* C10 as stated: the hint is "high" exactly when the text contains one of
\* urgent, asap, immediately, important, critical, priority, now, soon; else
\* "low" exactly when it contains a low keyword; else "medium".
C10_HintWithPriorityWord ==
    Parsed =>
        pRes[1].priority =
            HintFor({"urgent", "asap", "immediately", "important", "critical",
                     "priority", "now", "soon"})

\* C10 amended: the hint is "high" exactly when the lower-cased text contains
\* one of urgent, asap, immediately, important, critical, now, soon ("priority"
\* is not a keyword); else "low" exactly when it contains a low keyword; else
\* "medium"; a text with both yields "high". When an extraction step fails the
\* result is the fallback, whose hint is "medium" whatever the text contains.
C10_HintByKeywords ==
    Parsed =>
        pRes[1].priority =
            IF StepFailed THEN "medium"
            ELSE HintFor({"urgent", "asap", "immediately", "important", "critical",
                          "now", "soon"})

C10_Witness ==
    /\ Parsed /\ ~StepFailed
    /\ HasAny({"urgent"}) /\ HasAny({"later"})
    /\ pRes[1].priority = "high"

\* the text names none of today, tomorrow, next week, next month
NoDateKeyword ==
    Parsed /\ ~HasAny({"today", "tomorrow", "next week", "next month"})
\* the "in N <unit>" rule applies to the text: its count and unit
InRule == InPattern(Lower(pText[1]))
InCount == ParseInt(DropZeros(InRule[1].digits))
\* the numeric "on MM/DD[/YY[YY]]" rule applies to the text
NumericRule ==
    /\ NumericDate(pText[1]) # None
    /\ Contains(NumericDate(pText[1])[1], "/")
\* the textual "on <Month> <Day>[suffix]" rule applies to the text: the month
\* is one of the twelve names and the day is valid in it
TextualGroup == MonthDayMatch(pText[1])[1]
TextualMonth ==
    LET w == Lower(Prefix(TextualGroup, LetterRun(TextualGroup, 1)))
    IN  IF \E i \in DOMAIN MonthNames : MonthNames[i] = w
        THEN CHOOSE i \in DOMAIN MonthNames : MonthNames[i] = w
        ELSE 0
TextualDay ==
    LET b == LetterRun(TextualGroup, 1) + 2
    IN  ParseInt(SubSeq(TextualGroup, b, b + DigitRun(TextualGroup, b) - 1))
TextualRule ==
    /\ MonthDayMatch(pText[1]) # None
    /\ TextualMonth > 0
    /\ TextualDay \in 1..DaysInMonth(1900, TextualMonth)

\* C22: the due-date rules are tried in the order today, tomorrow, next week,
\* next month, "in N days|hours|weeks|months", numeric "on MM/DD[/YY[YY]]",
\* textual "on <Month> <Day>"; the first that matches determines due_date
\* (today = now, tomorrow = +1 day, next week = +7 days, next month = +30 days,
\* N weeks = 7N days, N months = 30N days), and due_date is null exactly when
\* no rule matches.
C22_FirstRuleWins ==
    Parsed =>
        /\ HasWord("today") => DueInDays(0)
        /\ (HasWord("tomorrow") /\ ~HasWord("today")) => DueInDays(1)
        /\ (HasWord("next week") /\ ~HasAny({"today", "tomorrow"})) => DueInDays(7)
        /\ (HasWord("next month") /\ ~HasAny({"today", "tomorrow", "next week"}))
              => DueInDays(30)
        /\ (NoDateKeyword /\ InRule # None /\ Len(DropZeros(InRule[1].digits)) <= 4) =>
              /\ InRule[1].unit = "day" => DueInDays(InCount)
              /\ InRule[1].unit = "week" => DueInDays(7 * InCount)
              /\ InRule[1].unit = "month" => DueInDays(30 * InCount)
        /\ (pRes[1].due_date = None)
              <=> (NoDateKeyword /\ InRule = None /\ ~NumericRule /\ ~TextualRule)

\* C23: when the text, after the leading filler is removed, holds "remind me
\* to X" or "create"/"add"/"make"/"do" followed by X, the title is X up to the
\* trailing date/time clause with its first letter capitalised: the imperative
\* pattern is tried before the generic one and the lead-in is not in the title.
C23_ImperativeTitleFirst ==
    Parsed =>
        LET x == TitleCandidate2(StripFiller(pText[1]))
        IN  (x # None /\ Strip(x[1]) # "") => pRes[1].title = Capitalise(Strip(x[1]))

\* C24: a text with "on M d[suffix]" (M one of the twelve month names, d a day
\* valid in M, suffix none or st, nd, rd, th) that matches no earlier due-date
\* rule gets a due_date with month M and day d, in the current year when that
\* day is today or later and in the next year when it has passed.
C24_MonthDayThisOrNextYear ==
    (NoDateKeyword /\ InRule = None /\ ~NumericRule /\ TextualRule) =>
        LET cur == Ord2Ymd(pClock[1].ord)
            passed == TextualMonth < cur.m
                        \/ (TextualMonth = cur.m /\ TextualDay < cur.d)
            year == IF passed THEN cur.y + 1 ELSE cur.y
        IN  /\ pRes[1].due_date =
                  Some(Str4(year) \o "-" \o Str2(TextualMonth) \o "-" \o Str2(TextualDay))
            /\ FromIsoFormat(pRes[1].due_date[1]).ord >= pClock[1].ord

\* C25: when evaluating one due-date sub-pattern fails (such as "in N days"
\* with a date that cannot be represented), parse still returns the regular
\* result: the extracted title, priority hint and tags, confidence 0.8, and a
\* due_date from a later rule or null.
C25_SubPatternFailureSwallowed ==
    (Parsed /\ NoDateKeyword /\ InRule # None
        /\ InDelta(pClock[1], InRule[1].digits, InRule[1].unit).exc) =>
        /\ pRes[1].confidence = 80
        /\ pRes[1].title = ExtractTitle(pText[1])
        /\ pRes[1].priority = ExtractPriority(nlp, pText[1])
        /\ pRes[1].tags = ExtractTags(pText[1])

\* C26: a due_date returned by parse is a string YYYY-MM-DD that denotes a real
\* calendar date, for every text, the numeric "on MM/DD" and "on MM/DD/YY[YY]"
\* forms included; the priority engine therefore parses it.
C26_DueDateIsRealDate ==
    (Parsed /\ pRes[1].due_date # None) =>
        /\ Len(pRes[1].due_date[1]) = 10
        /\ FromIsoFormat(pRes[1].due_date[1]).ok

(***************************************************************************)
(* Properties of the in-memory task service.                               *)
(***************************************************************************)
\* the last call was op
Called(op) == svcCall.op = op
\* the last call named an id that was stored when it began
OnStored == svcCall.id \in DOMAIN svcCall.before.tasks
\* the last call ended by returning None
ReturnedNoTask == ~svcCall.raised /\ svcCall.ret = None

\* C13: the ids returned by the successful create_task calls are 1, 2, 3, ...
\* in creation order (so they are unique and a deleted id is never given to
\* a later task).
C13_IdsInCreationOrder == \A k \in 1..Len(handed) : handed[k] = k

\* C14: a create_task or update_task call that raises ValueError leaves the
\* stored tasks unchanged, and a get_all_tasks that follows succeeds and
\* returns exactly the tasks that existed before the failed call.
C14_FailedCallLeavesStore ==
    (svcCall.op \in {"create_task", "update_task"} /\ svcCall.raised) =>
        /\ api_client.tasks = svcCall.before.tasks
        /\ ~get_all_tasks(api_client).raised
        /\ get_all_tasks(api_client).ret = get_all_tasks(svcCall.before).ret

\* C15: toggle_completion on a stored task flips its completed flag and
\* changes nothing else in the store (the task's other fields, the other
\* tasks, the next id); a second toggle of the same task right after the first
\* restores the original value of the flag; a task just created has
\* completed = false, in the store and in the Task returned.
C15_ToggleFlipsOnly ==
    /\ (Called("toggle_completion") /\ OnStored) =>
          /\ api_client =
                [svcCall.before EXCEPT !.tasks[svcCall.id].completed = ~@]
          /\ ~svcCall.raised =>
                svcCall.ret =
                    Some([id |-> svcCall.id,
                          title |-> svcCall.before.tasks[svcCall.id].title,
                          description |-> svcCall.before.tasks[svcCall.id].description,
                          completed |-> ~svcCall.before.tasks[svcCall.id].completed])
          /\ (svcCall.prevToggle # None /\ svcCall.prevToggle[1].id = svcCall.id) =>
                api_client.tasks[svcCall.id].completed = svcCall.prevToggle[1].was
    /\ (Called("create_task") /\ ~svcCall.raised) =>
          /\ svcCall.ret[1].completed = FALSE
          /\ api_client.tasks[svcCall.ret[1].id].completed = FALSE

C15_Witness ==
    /\ Called("toggle_completion") /\ OnStored /\ ~svcCall.raised
    /\ svcCall.prevToggle # None /\ svcCall.prevToggle[1].id = svcCall.id
    /\ svcCall.before.tasks[svcCall.id].completed
    /\ ~api_client.tasks[svcCall.id].completed
    /\ Cardinality(DOMAIN api_client.tasks) = 2

\* the part of C16 on delete_task of a stored id: it returns True, and a
\* get_task_by_id for that id afterwards returns None
DeleteStored ==
    (Called("delete_task") /\ OnStored) =>
        /\ ~svcCall.raised /\ svcCall.ret = Some(TRUE)
        /\ get_task_by_id(api_client, svcCall.id) = ReturnedNone(api_client)

Completed == toolCall.op = "complete_task" /\ toolCall.success

\* C17: after complete_task_handler returns success for a task owned by the
\* user, the task's completed flag is true, whatever it was before the call
\* (a task already completed stays completed).
C17_CompletedAfterSuccess ==
    Completed => db[toolCall.params[1]].completed = TRUE

\* the last call on the table named a task owned by another user
OnForeignTask ==
    /\ tableCall.op \in {"get_task_by_id", "update_task", "delete_task",
                          "toggle_task_completion"}
    /\ tableCall.task_id \in DOMAIN tableCall.before
    /\ tableCall.before[tableCall.task_id].user_id # tableCall.user_id

\* C27: get_task_by_id, update_task, delete_task and toggle_task_completion
\* called with user U and the id of a task owned by another user V return None
\* (False for delete_task) and leave the table unchanged; over a whole run, a
\* task has only been returned, modified or deleted by calls that carry its
\* owner's user id.
C27_OwnerOnly ==
    /\ OnForeignTask =>
          /\ tableCall.ret = (IF tableCall.op = "delete_task" THEN Some(FALSE) ELSE None)
          /\ db = tableCall.before
    /\ \A t \in touched : t.owner = t.by

C27_Witness ==
    /\ OnForeignTask /\ tableCall.op = "update_task"
    /\ db = tableCall.before
    /\ ~db[tableCall.task_id].completed
    /\ \E t \in touched : t.owner = db[tableCall.task_id].user_id
    /\ Cardinality(touched) = 2

=============================================================================
